---- MODULE Spec2Model ----
(***************************************************************************)
(* A model of the scheduling core of PD: the hot-peer cache                *)
(* (server/statistics), the balance guard of the schedulers                *)
(* (server/schedulers/utils.go) and the coordinator's patrol and           *)
(* scheduler loops with the operators they admit (server/cluster,          *)
(* server/schedule/operator).                                              *)
(*                                                                         *)
(* Each component has its own specification over the shared variables:     *)
(*   SpecHot      region heartbeats through CheckRegionFlow and Update     *)
(*   SpecBalance  shouldBalance over enumerated stores and influences      *)
(*   SpecOp       patrol loop, scheduler loops, heartbeats polling steps   *)
(***************************************************************************)
EXTENDS Integers, Sequences, FiniteSets, TLC

VARIABLES
    \* ---- hot-peer cache (hotPeerCache, one region followed) ----
    kind,            \* f.kind: "write" or "read"
    topNOthers,      \* per store: number of other regions' peers in its TopN
    peersOfStore,    \* f.peersOfStore[store] entry of the region, or Nil
    storesOfRegion,  \* f.storesOfRegion[region]: set of stores
    now,             \* time.Now(), counted in heartbeats handled
    hb,              \* the RegionInfo of the last heartbeat handled (or Nil)
    ret,             \* what the last CheckRegionFlow returned
    oldOf,           \* per store: the store whose entry served as oldItem (0: none)
    hotRun,          \* per store: length of the current run of hot full-interval heartbeats
    rawRun,          \* per store: length of the current run of hot heartbeats at one interval
    \* ---- balance guard (schedulers.shouldBalance) ----
    balIn,           \* the arguments of a shouldBalance call (or Nil)
    balOut,          \* what the call returned (or Nil)
    \* ---- coordinator loops and operator controller ----
    operators,       \* opController.operators: region -> operator (or Nil)
    running,         \* the operators admitted and not ended, as <<id, region>>
    lastSuccess,     \* the operator that ended in SUCCESS last (or Nil)
    opBeats,         \* number of region heartbeats dispatched so far
    opsCreated,      \* number of operators created so far (gives their ids)
    patrol,          \* position of patrolRegions in its loop over regions
    sched,           \* per scheduler: position of runScheduler in its loop
    lastAdd,         \* the outcome of the last AddWaitingOperator call (or "none")
    \* ---- checker pipeline (CheckerController.CheckRegion) ----
    chkIn,           \* the checkers' answers and the limits of a CheckRegion call (or Nil)
    chkOut,          \* what the call returned and did (or Nil)
    \* ---- rule checker (RuleChecker) ----
    ruleIn,          \* the arguments of a call into the rule checker (or Nil)
    ruleOut,         \* what the call returned (or Nil)
    \* ---- step descriptions (OpStep.String) ----
    strIn,           \* two operator steps (or Nil)
    strOut,          \* the strings String returned for them (or Nil)
    \* ---- retry quota (schedulers.retryQuota) ----
    quota,           \* the retryQuota: initialLimit, minLimit, attenuation, limits (or Nil)
    attenuations,    \* per store: Attenuate calls since its reset, removal or first use
    quotaCall,       \* the last call on the retryQuota and its result (or Nil)
    \* ---- one scheduler loop and its Schedule calls (scheduleController) ----
    scLoop,          \* runScheduler and Schedule: position, retry index, nextInterval, result (or Nil)
    scCtx,           \* whether the scheduler's context is cancelled
    scCall,          \* the Schedule call in progress: the interval before it and the attempts' answers
    \* ---- the coordinator's tasks and stop (coordinator.stop) ----
    lifeCtx,         \* whether c.ctx is cancelled
    lifeStopped,     \* the schedulers whose own context was cancelled by Stop
    lifeTasks,       \* per task: its position (or Nil before the tasks are started)
    lifeSeen,        \* the scheduler loops that have observed the cancellation
    lifeLate,        \* the scheduler loops that submitted operators after observing it
    \* ---- coordinator.run, up to the start of the workers ----
    runPc,           \* where run is
    runI,            \* the loop variable i of the loading loop
    runErr,          \* whether err is not nil
    runCalls,        \* the calls of LoadAllScheduleConfig made
    runFails,        \* the calls of LoadAllScheduleConfig that failed
    runCtx,          \* whether c.ctx is cancelled
    runWorkers,      \* whether schedulers and workers were created
    \* ---- suspect key ranges (coordinator.checkSuspectKeyRanges) ----
    krIn,            \* the cluster before a checkSuspectKeyRanges call (or Nil)
    krOut,           \* the range popped with the regions scanned and the cluster after the call (or Nil)
    \* ---- patrolRegions with its scan key ----
    scanTree,        \* the regions the cluster knows (or Nil)
    scanOperators,   \* the regions that have an operator
    scanSuspects,    \* the suspect regions
    scanKeyRanges,   \* the suspect key ranges
    scanLoop,        \* patrolRegions: position and key and the lists it walks (or Nil)
    \* ---- step influence (RemovePeer.Influence) ----
    infIn,           \* the step with the region and the influences before an Influence call (or Nil)
    infOut,          \* the influences after the call (or Nil)
    \* ---- the tolerant resource (getTolerantResource) ----
    tolIn,           \* the cluster with the region and the schedule kind of a getTolerantResource call (or Nil)
    tolOut,          \* what the call returned (or Nil)
    \* ---- the scheduler registry (coordinator.addScheduler and removeScheduler) ----
    regLock,         \* the caller that holds the coordinator lock (or 0)
    regSchedulers,   \* c.schedulers: per name the task of its controller (or 0)
    regTasks,        \* the runScheduler tasks started: name and whether stopped and whether exited
    regCfg,          \* the names in the scheduler configuration
    regThreads,      \* per caller: position and call and name and error and controller found
    \* ---- hot thresholds of a store (hotPeerCache.calcHotThresholds) ----
    thrIn,           \* the flow kind with the TopN of the store of a calcHotThresholds call (or Nil)
    thrOut,          \* the thresholds returned in units of 1/HotThresholdDen (or Nil)
    \* ---- repair of one rule fit (RuleChecker.fixRulePeer) ----
    fixIn,           \* the cluster with the region and the rule fit of a fixRulePeer call (or Nil)
    fixOut,          \* the repair fixRulePeer handed the fit to and what it returned (or Nil)
    \* ---- the rule checker on one region (RuleChecker.Check) ----
    rckIn,           \* the cluster with the region and its fit of a Check call (or Nil)
    rckOut,          \* the operator Check returned with the failures it logged (or Nil)
    \* ---- one operator step on one region snapshot (OpStep) ----
    stepIn,          \* the step with the region snapshot it is asked about (or Nil)
    stepOut,         \* what CheckSafety and IsFinish and ConfVerChanged and the operator poll returned (each Nil until called)
    \* ---- repair of a loosely matched peer (RuleChecker.fixLooseMatchPeer) ----
    looseIn,         \* the cluster with the region and the fit and the peer of a fixLooseMatchPeer call (or Nil)
    looseOut,        \* what the call returned (or Nil)
    \* ---- a timer and the goroutine that owns it (utils.DrainAndStopTimer) ----
    tmActive,        \* whether the timer is armed
    tmGen,           \* how many times the timer was armed (NewTimer and Reset)
    tmChan,          \* the channel t.C: at most one tick that carries the arming it was fired for
    tmPc,            \* where the owner is: run or stop or select or returned
    tmStopped,       \* what t.Stop returned to DrainAndStopTimer
    tmRecv,          \* the ticks the owner received: the arming of the tick and the arming at the receive
    \* ---- the two maps of the hot-peer cache under Update calls (hotPeerCache.Update) ----
    updPeers,        \* f.peersOfStore: per store the regions its TopN holds an item of (Nil without a TopN)
    updStores,       \* f.storesOfRegion: per region its set of stores (Nil without an entry)
    updItem,         \* the item of the last Update call (or Nil)
    \* ---- a suspect key range over the patrol rounds (coordinator.checkSuspectKeyRanges) ----
    kqCluster,       \* the cluster: its regions and suspect regions and suspect key ranges (or Nil)
    kqRange,         \* the key range AddSuspectKeyRange was called with (or Nil)
    kqAdded,         \* the regions added to the suspect regions so far
    kqStarts,        \* the start keys of the key ranges popped so far
    \* ---- pausing and resuming schedulers (coordinator.pauseOrResumeScheduler) ----
    psNow,           \* time.Now().Unix()
    psSchedulers,    \* c.schedulers: the names registered
    psDelayUntil,    \* delayUntil of each registered scheduler (or Nil)
    psLoop,          \* per registered scheduler where its runScheduler loop is: timer or schedule or add (or Nil)
    psCall           \* the last pauseOrResumeScheduler call: name and t and the time and the error and delayUntil before it (or Nil)

hotVars == <<kind, topNOthers, peersOfStore, storesOfRegion, now, hb, ret, oldOf, hotRun, rawRun>>

balVars == <<balIn, balOut>>

opVars == <<operators, running, lastSuccess, opBeats, opsCreated, patrol, sched, lastAdd>>

chkVars == <<chkIn, chkOut>>

ruleVars == <<ruleIn, ruleOut>>

strVars == <<strIn, strOut>>

quotaVars == <<quota, attenuations, quotaCall>>

scVars == <<scLoop, scCtx, scCall>>

lifeVars == <<lifeCtx, lifeStopped, lifeTasks, lifeSeen, lifeLate>>

runVars == <<runPc, runI, runErr, runCalls, runFails, runCtx, runWorkers>>

krVars == <<krIn, krOut>>

scanVars == <<scanTree, scanOperators, scanSuspects, scanKeyRanges, scanLoop>>

infVars == <<infIn, infOut>>

tolVars == <<tolIn, tolOut>>

regVars == <<regLock, regSchedulers, regTasks, regCfg, regThreads>>

thrVars == <<thrIn, thrOut>>

fixVars == <<fixIn, fixOut>>

rckVars == <<rckIn, rckOut>>

stepVars == <<stepIn, stepOut>>

looseVars == <<looseIn, looseOut>>

tmVars == <<tmActive, tmGen, tmChan, tmPc, tmStopped, tmRecv>>

updVars == <<updPeers, updStores, updItem>>

kqVars == <<kqCluster, kqRange, kqAdded, kqStarts>>

psVars == <<psNow, psSchedulers, psDelayUntil, psLoop, psCall>>

vars == <<hotVars, balVars, opVars, chkVars, ruleVars, strVars, quotaVars, scVars, lifeVars, runVars, krVars, scanVars, infVars, tolVars, regVars, thrVars, fixVars, rckVars, stepVars, looseVars, tmVars, updVars, kqVars, psVars>>

\* What the actions of each component leave unchanged: the other components.
hotOthers == <<balVars, opVars, chkVars, ruleVars, strVars, quotaVars,
    scVars, lifeVars, runVars, krVars, scanVars, infVars, tolVars, regVars,
    thrVars, fixVars, rckVars, stepVars, looseVars, tmVars, updVars, kqVars,
    psVars>>

balOthers == <<hotVars, opVars, chkVars, ruleVars, strVars, quotaVars,
    scVars, lifeVars, runVars, krVars, scanVars, infVars, tolVars, regVars,
    thrVars, fixVars, rckVars, stepVars, looseVars, tmVars, updVars, kqVars,
    psVars>>

opOthers == <<hotVars, balVars, chkVars, ruleVars, strVars, quotaVars,
    scVars, lifeVars, runVars, krVars, scanVars, infVars, tolVars, regVars,
    thrVars, fixVars, rckVars, stepVars, looseVars, tmVars, updVars, kqVars,
    psVars>>

chkOthers == <<hotVars, balVars, opVars, ruleVars, strVars, quotaVars,
    scVars, lifeVars, runVars, krVars, scanVars, infVars, tolVars, regVars,
    thrVars, fixVars, rckVars, stepVars, looseVars, tmVars, updVars, kqVars,
    psVars>>

ruleOthers == <<hotVars, balVars, opVars, chkVars, strVars, quotaVars,
    scVars, lifeVars, runVars, krVars, scanVars, infVars, tolVars, regVars,
    thrVars, fixVars, rckVars, stepVars, looseVars, tmVars, updVars, kqVars,
    psVars>>

strOthers == <<hotVars, balVars, opVars, chkVars, ruleVars, quotaVars,
    scVars, lifeVars, runVars, krVars, scanVars, infVars, tolVars, regVars,
    thrVars, fixVars, rckVars, stepVars, looseVars, tmVars, updVars, kqVars,
    psVars>>

quotaOthers == <<hotVars, balVars, opVars, chkVars, ruleVars, strVars,
    scVars, lifeVars, runVars, krVars, scanVars, infVars, tolVars, regVars,
    thrVars, fixVars, rckVars, stepVars, looseVars, tmVars, updVars, kqVars,
    psVars>>

scOthers == <<hotVars, balVars, opVars, chkVars, ruleVars, strVars,
    quotaVars, lifeVars, runVars, krVars, scanVars, infVars, tolVars,
    regVars, thrVars, fixVars, rckVars, stepVars, looseVars, tmVars, updVars,
    kqVars, psVars>>

lifeOthers == <<hotVars, balVars, opVars, chkVars, ruleVars, strVars,
    quotaVars, scVars, runVars, krVars, scanVars, infVars, tolVars, regVars,
    thrVars, fixVars, rckVars, stepVars, looseVars, tmVars, updVars, kqVars,
    psVars>>

runOthers == <<hotVars, balVars, opVars, chkVars, ruleVars, strVars,
    quotaVars, scVars, lifeVars, krVars, scanVars, infVars, tolVars, regVars,
    thrVars, fixVars, rckVars, stepVars, looseVars, tmVars, updVars, kqVars,
    psVars>>

krOthers == <<hotVars, balVars, opVars, chkVars, ruleVars, strVars,
    quotaVars, scVars, lifeVars, runVars, scanVars, infVars, tolVars,
    regVars, thrVars, fixVars, rckVars, stepVars, looseVars, tmVars, updVars,
    kqVars, psVars>>

scanOthers == <<hotVars, balVars, opVars, chkVars, ruleVars, strVars,
    quotaVars, scVars, lifeVars, runVars, krVars, infVars, tolVars, regVars,
    thrVars, fixVars, rckVars, stepVars, looseVars, tmVars, updVars, kqVars,
    psVars>>

infOthers == <<hotVars, balVars, opVars, chkVars, ruleVars, strVars,
    quotaVars, scVars, lifeVars, runVars, krVars, scanVars, tolVars, regVars,
    thrVars, fixVars, rckVars, stepVars, looseVars, tmVars, updVars, kqVars,
    psVars>>

tolOthers == <<hotVars, balVars, opVars, chkVars, ruleVars, strVars,
    quotaVars, scVars, lifeVars, runVars, krVars, scanVars, infVars, regVars,
    thrVars, fixVars, rckVars, stepVars, looseVars, tmVars, updVars, kqVars,
    psVars>>

regOthers == <<hotVars, balVars, opVars, chkVars, ruleVars, strVars,
    quotaVars, scVars, lifeVars, runVars, krVars, scanVars, infVars, tolVars,
    thrVars, fixVars, rckVars, stepVars, looseVars, tmVars, updVars, kqVars,
    psVars>>

thrOthers == <<hotVars, balVars, opVars, chkVars, ruleVars, strVars,
    quotaVars, scVars, lifeVars, runVars, krVars, scanVars, infVars, tolVars,
    regVars, fixVars, rckVars, stepVars, looseVars, tmVars, updVars, kqVars,
    psVars>>

fixOthers == <<hotVars, balVars, opVars, chkVars, ruleVars, strVars,
    quotaVars, scVars, lifeVars, runVars, krVars, scanVars, infVars, tolVars,
    regVars, thrVars, rckVars, stepVars, looseVars, tmVars, updVars, kqVars,
    psVars>>

rckOthers == <<hotVars, balVars, opVars, chkVars, ruleVars, strVars,
    quotaVars, scVars, lifeVars, runVars, krVars, scanVars, infVars, tolVars,
    regVars, thrVars, fixVars, stepVars, looseVars, tmVars, updVars, kqVars,
    psVars>>

stepOthers == <<hotVars, balVars, opVars, chkVars, ruleVars, strVars,
    quotaVars, scVars, lifeVars, runVars, krVars, scanVars, infVars, tolVars,
    regVars, thrVars, fixVars, rckVars, looseVars, tmVars, updVars, kqVars,
    psVars>>

looseOthers == <<hotVars, balVars, opVars, chkVars, ruleVars, strVars,
    quotaVars, scVars, lifeVars, runVars, krVars, scanVars, infVars, tolVars,
    regVars, thrVars, fixVars, rckVars, stepVars, tmVars, updVars, kqVars,
    psVars>>

tmOthers == <<hotVars, balVars, opVars, chkVars, ruleVars, strVars,
    quotaVars, scVars, lifeVars, runVars, krVars, scanVars, infVars, tolVars,
    regVars, thrVars, fixVars, rckVars, stepVars, looseVars, updVars, kqVars,
    psVars>>

updOthers == <<hotVars, balVars, opVars, chkVars, ruleVars, strVars,
    quotaVars, scVars, lifeVars, runVars, krVars, scanVars, infVars, tolVars,
    regVars, thrVars, fixVars, rckVars, stepVars, looseVars, tmVars, kqVars,
    psVars>>

kqOthers == <<hotVars, balVars, opVars, chkVars, ruleVars, strVars,
    quotaVars, scVars, lifeVars, runVars, krVars, scanVars, infVars, tolVars,
    regVars, thrVars, fixVars, rckVars, stepVars, looseVars, tmVars, updVars,
    psVars>>

psOthers == <<hotVars, balVars, opVars, chkVars, ruleVars, strVars,
    quotaVars, scVars, lifeVars, runVars, krVars, scanVars, infVars, tolVars,
    regVars, thrVars, fixVars, rckVars, stepVars, looseVars, tmVars, updVars,
    kqVars>>

Nil == [nil |-> TRUE]

\* Nothing has happened in: checker pipeline (CheckerController.CheckRegion).
ChkIdle ==
    /\ chkIn = Nil
    /\ chkOut = Nil

\* Nothing has happened in: rule checker (RuleChecker).
RuleIdle ==
    /\ ruleIn = Nil
    /\ ruleOut = Nil

\* Nothing has happened in: step descriptions (OpStep.String).
StrIdle ==
    /\ strIn = Nil
    /\ strOut = Nil

\* Nothing has happened in: retry quota (schedulers.retryQuota).
QuotaIdle ==
    /\ quota = Nil
    /\ attenuations = <<>>
    /\ quotaCall = Nil

\* Nothing has happened in: one scheduler loop and its Schedule calls (scheduleController).
ScIdle ==
    /\ scLoop = Nil
    /\ scCtx = FALSE
    /\ scCall = Nil

\* Nothing has happened in: the coordinator's tasks and stop (coordinator.stop).
LifeIdle ==
    /\ lifeCtx = FALSE
    /\ lifeStopped = {}
    /\ lifeTasks = Nil
    /\ lifeSeen = {}
    /\ lifeLate = {}

\* Nothing has happened in: coordinator.run, up to the start of the workers.
RunIdle ==
    /\ runPc = "idle"
    /\ runI = 0
    /\ runErr = FALSE
    /\ runCalls = 0
    /\ runFails = 0
    /\ runCtx = FALSE
    /\ runWorkers = FALSE

\* Nothing has happened in: suspect key ranges (coordinator.checkSuspectKeyRanges).
KrIdle ==
    /\ krIn = Nil
    /\ krOut = Nil

\* Nothing has happened in: patrolRegions with its scan key.
ScanIdle ==
    /\ scanTree = Nil
    /\ scanOperators = {}
    /\ scanSuspects = {}
    /\ scanKeyRanges = {}
    /\ scanLoop = Nil

\* Nothing has happened in: step influence (RemovePeer.Influence).
InfIdle ==
    /\ infIn = Nil
    /\ infOut = Nil

\* Nothing has happened in: the tolerant resource (getTolerantResource).
TolIdle ==
    /\ tolIn = Nil
    /\ tolOut = Nil

\* Nothing has happened in: the scheduler registry (coordinator.addScheduler and removeScheduler).
RegIdle ==
    /\ regLock = 0
    /\ regSchedulers = Nil
    /\ regTasks = <<>>
    /\ regCfg = {}
    /\ regThreads = Nil

\* Nothing has happened in: hot thresholds of a store (hotPeerCache.calcHotThresholds).
ThrIdle ==
    /\ thrIn = Nil
    /\ thrOut = Nil

\* Nothing has happened in: repair of one rule fit (RuleChecker.fixRulePeer).
FixIdle ==
    /\ fixIn = Nil
    /\ fixOut = Nil

\* Nothing has happened in: the rule checker on one region (RuleChecker.Check).
RckIdle ==
    /\ rckIn = Nil
    /\ rckOut = Nil

\* Nothing has happened in: one operator step on one region snapshot (OpStep).
StepIdle ==
    /\ stepIn = Nil
    /\ stepOut = Nil

\* Nothing has happened in: repair of a loosely matched peer (RuleChecker.fixLooseMatchPeer).
LooseIdle ==
    /\ looseIn = Nil
    /\ looseOut = Nil

\* Nothing has happened in: a timer and the goroutine that owns it (utils.DrainAndStopTimer).
TmIdle ==
    /\ tmActive = FALSE
    /\ tmGen = 0
    /\ tmChan = <<>>
    /\ tmPc = "idle"
    /\ tmStopped = FALSE
    /\ tmRecv = {}

\* Nothing has happened in: the two maps of the hot-peer cache under Update calls (hotPeerCache.Update).
UpdIdle ==
    /\ updPeers = Nil
    /\ updStores = Nil
    /\ updItem = Nil

\* Nothing has happened in: a suspect key range over the patrol rounds (coordinator.checkSuspectKeyRanges).
KqIdle ==
    /\ kqCluster = Nil
    /\ kqRange = Nil
    /\ kqAdded = {}
    /\ kqStarts = <<>>

\* Nothing has happened in: pausing and resuming schedulers (coordinator.pauseOrResumeScheduler).
PsIdle ==
    /\ psNow = 0
    /\ psSchedulers = {}
    /\ psDelayUntil = Nil
    /\ psLoop = Nil
    /\ psCall = Nil

\* The components beside the hot-peer cache, the balance guard and the
\* coordinator loops, all at rest, or all but one.
RestIdle ==
    /\ ChkIdle
    /\ RuleIdle
    /\ StrIdle
    /\ QuotaIdle
    /\ ScIdle
    /\ LifeIdle
    /\ RunIdle
    /\ KrIdle
    /\ ScanIdle
    /\ InfIdle
    /\ TolIdle
    /\ RegIdle
    /\ ThrIdle
    /\ FixIdle
    /\ RckIdle
    /\ StepIdle
    /\ LooseIdle
    /\ TmIdle
    /\ UpdIdle
    /\ KqIdle
    /\ PsIdle

chkRestIdle ==
    /\ RuleIdle
    /\ StrIdle
    /\ QuotaIdle
    /\ ScIdle
    /\ LifeIdle
    /\ RunIdle
    /\ KrIdle
    /\ ScanIdle
    /\ InfIdle
    /\ TolIdle
    /\ RegIdle
    /\ ThrIdle
    /\ FixIdle
    /\ RckIdle
    /\ StepIdle
    /\ LooseIdle
    /\ TmIdle
    /\ UpdIdle
    /\ KqIdle
    /\ PsIdle

ruleRestIdle ==
    /\ ChkIdle
    /\ StrIdle
    /\ QuotaIdle
    /\ ScIdle
    /\ LifeIdle
    /\ RunIdle
    /\ KrIdle
    /\ ScanIdle
    /\ InfIdle
    /\ TolIdle
    /\ RegIdle
    /\ ThrIdle
    /\ FixIdle
    /\ RckIdle
    /\ StepIdle
    /\ LooseIdle
    /\ TmIdle
    /\ UpdIdle
    /\ KqIdle
    /\ PsIdle

strRestIdle ==
    /\ ChkIdle
    /\ RuleIdle
    /\ QuotaIdle
    /\ ScIdle
    /\ LifeIdle
    /\ RunIdle
    /\ KrIdle
    /\ ScanIdle
    /\ InfIdle
    /\ TolIdle
    /\ RegIdle
    /\ ThrIdle
    /\ FixIdle
    /\ RckIdle
    /\ StepIdle
    /\ LooseIdle
    /\ TmIdle
    /\ UpdIdle
    /\ KqIdle
    /\ PsIdle

quotaRestIdle ==
    /\ ChkIdle
    /\ RuleIdle
    /\ StrIdle
    /\ ScIdle
    /\ LifeIdle
    /\ RunIdle
    /\ KrIdle
    /\ ScanIdle
    /\ InfIdle
    /\ TolIdle
    /\ RegIdle
    /\ ThrIdle
    /\ FixIdle
    /\ RckIdle
    /\ StepIdle
    /\ LooseIdle
    /\ TmIdle
    /\ UpdIdle
    /\ KqIdle
    /\ PsIdle

scRestIdle ==
    /\ ChkIdle
    /\ RuleIdle
    /\ StrIdle
    /\ QuotaIdle
    /\ LifeIdle
    /\ RunIdle
    /\ KrIdle
    /\ ScanIdle
    /\ InfIdle
    /\ TolIdle
    /\ RegIdle
    /\ ThrIdle
    /\ FixIdle
    /\ RckIdle
    /\ StepIdle
    /\ LooseIdle
    /\ TmIdle
    /\ UpdIdle
    /\ KqIdle
    /\ PsIdle

lifeRestIdle ==
    /\ ChkIdle
    /\ RuleIdle
    /\ StrIdle
    /\ QuotaIdle
    /\ ScIdle
    /\ RunIdle
    /\ KrIdle
    /\ ScanIdle
    /\ InfIdle
    /\ TolIdle
    /\ RegIdle
    /\ ThrIdle
    /\ FixIdle
    /\ RckIdle
    /\ StepIdle
    /\ LooseIdle
    /\ TmIdle
    /\ UpdIdle
    /\ KqIdle
    /\ PsIdle

runRestIdle ==
    /\ ChkIdle
    /\ RuleIdle
    /\ StrIdle
    /\ QuotaIdle
    /\ ScIdle
    /\ LifeIdle
    /\ KrIdle
    /\ ScanIdle
    /\ InfIdle
    /\ TolIdle
    /\ RegIdle
    /\ ThrIdle
    /\ FixIdle
    /\ RckIdle
    /\ StepIdle
    /\ LooseIdle
    /\ TmIdle
    /\ UpdIdle
    /\ KqIdle
    /\ PsIdle

krRestIdle ==
    /\ ChkIdle
    /\ RuleIdle
    /\ StrIdle
    /\ QuotaIdle
    /\ ScIdle
    /\ LifeIdle
    /\ RunIdle
    /\ ScanIdle
    /\ InfIdle
    /\ TolIdle
    /\ RegIdle
    /\ ThrIdle
    /\ FixIdle
    /\ RckIdle
    /\ StepIdle
    /\ LooseIdle
    /\ TmIdle
    /\ UpdIdle
    /\ KqIdle
    /\ PsIdle

scanRestIdle ==
    /\ ChkIdle
    /\ RuleIdle
    /\ StrIdle
    /\ QuotaIdle
    /\ ScIdle
    /\ LifeIdle
    /\ RunIdle
    /\ KrIdle
    /\ InfIdle
    /\ TolIdle
    /\ RegIdle
    /\ ThrIdle
    /\ FixIdle
    /\ RckIdle
    /\ StepIdle
    /\ LooseIdle
    /\ TmIdle
    /\ UpdIdle
    /\ KqIdle
    /\ PsIdle

infRestIdle ==
    /\ ChkIdle
    /\ RuleIdle
    /\ StrIdle
    /\ QuotaIdle
    /\ ScIdle
    /\ LifeIdle
    /\ RunIdle
    /\ KrIdle
    /\ ScanIdle
    /\ TolIdle
    /\ RegIdle
    /\ ThrIdle
    /\ FixIdle
    /\ RckIdle
    /\ StepIdle
    /\ LooseIdle
    /\ TmIdle
    /\ UpdIdle
    /\ KqIdle
    /\ PsIdle

tolRestIdle ==
    /\ ChkIdle
    /\ RuleIdle
    /\ StrIdle
    /\ QuotaIdle
    /\ ScIdle
    /\ LifeIdle
    /\ RunIdle
    /\ KrIdle
    /\ ScanIdle
    /\ InfIdle
    /\ RegIdle
    /\ ThrIdle
    /\ FixIdle
    /\ RckIdle
    /\ StepIdle
    /\ LooseIdle
    /\ TmIdle
    /\ UpdIdle
    /\ KqIdle
    /\ PsIdle

regRestIdle ==
    /\ ChkIdle
    /\ RuleIdle
    /\ StrIdle
    /\ QuotaIdle
    /\ ScIdle
    /\ LifeIdle
    /\ RunIdle
    /\ KrIdle
    /\ ScanIdle
    /\ InfIdle
    /\ TolIdle
    /\ ThrIdle
    /\ FixIdle
    /\ RckIdle
    /\ StepIdle
    /\ LooseIdle
    /\ TmIdle
    /\ UpdIdle
    /\ KqIdle
    /\ PsIdle

thrRestIdle ==
    /\ ChkIdle
    /\ RuleIdle
    /\ StrIdle
    /\ QuotaIdle
    /\ ScIdle
    /\ LifeIdle
    /\ RunIdle
    /\ KrIdle
    /\ ScanIdle
    /\ InfIdle
    /\ TolIdle
    /\ RegIdle
    /\ FixIdle
    /\ RckIdle
    /\ StepIdle
    /\ LooseIdle
    /\ TmIdle
    /\ UpdIdle
    /\ KqIdle
    /\ PsIdle

fixRestIdle ==
    /\ ChkIdle
    /\ RuleIdle
    /\ StrIdle
    /\ QuotaIdle
    /\ ScIdle
    /\ LifeIdle
    /\ RunIdle
    /\ KrIdle
    /\ ScanIdle
    /\ InfIdle
    /\ TolIdle
    /\ RegIdle
    /\ ThrIdle
    /\ RckIdle
    /\ StepIdle
    /\ LooseIdle
    /\ TmIdle
    /\ UpdIdle
    /\ KqIdle
    /\ PsIdle

rckRestIdle ==
    /\ ChkIdle
    /\ RuleIdle
    /\ StrIdle
    /\ QuotaIdle
    /\ ScIdle
    /\ LifeIdle
    /\ RunIdle
    /\ KrIdle
    /\ ScanIdle
    /\ InfIdle
    /\ TolIdle
    /\ RegIdle
    /\ ThrIdle
    /\ FixIdle
    /\ StepIdle
    /\ LooseIdle
    /\ TmIdle
    /\ UpdIdle
    /\ KqIdle
    /\ PsIdle

stepRestIdle ==
    /\ ChkIdle
    /\ RuleIdle
    /\ StrIdle
    /\ QuotaIdle
    /\ ScIdle
    /\ LifeIdle
    /\ RunIdle
    /\ KrIdle
    /\ ScanIdle
    /\ InfIdle
    /\ TolIdle
    /\ RegIdle
    /\ ThrIdle
    /\ FixIdle
    /\ RckIdle
    /\ LooseIdle
    /\ TmIdle
    /\ UpdIdle
    /\ KqIdle
    /\ PsIdle

looseRestIdle ==
    /\ ChkIdle
    /\ RuleIdle
    /\ StrIdle
    /\ QuotaIdle
    /\ ScIdle
    /\ LifeIdle
    /\ RunIdle
    /\ KrIdle
    /\ ScanIdle
    /\ InfIdle
    /\ TolIdle
    /\ RegIdle
    /\ ThrIdle
    /\ FixIdle
    /\ RckIdle
    /\ StepIdle
    /\ TmIdle
    /\ UpdIdle
    /\ KqIdle
    /\ PsIdle

tmRestIdle ==
    /\ ChkIdle
    /\ RuleIdle
    /\ StrIdle
    /\ QuotaIdle
    /\ ScIdle
    /\ LifeIdle
    /\ RunIdle
    /\ KrIdle
    /\ ScanIdle
    /\ InfIdle
    /\ TolIdle
    /\ RegIdle
    /\ ThrIdle
    /\ FixIdle
    /\ RckIdle
    /\ StepIdle
    /\ LooseIdle
    /\ UpdIdle
    /\ KqIdle
    /\ PsIdle

updRestIdle ==
    /\ ChkIdle
    /\ RuleIdle
    /\ StrIdle
    /\ QuotaIdle
    /\ ScIdle
    /\ LifeIdle
    /\ RunIdle
    /\ KrIdle
    /\ ScanIdle
    /\ InfIdle
    /\ TolIdle
    /\ RegIdle
    /\ ThrIdle
    /\ FixIdle
    /\ RckIdle
    /\ StepIdle
    /\ LooseIdle
    /\ TmIdle
    /\ KqIdle
    /\ PsIdle

kqRestIdle ==
    /\ ChkIdle
    /\ RuleIdle
    /\ StrIdle
    /\ QuotaIdle
    /\ ScIdle
    /\ LifeIdle
    /\ RunIdle
    /\ KrIdle
    /\ ScanIdle
    /\ InfIdle
    /\ TolIdle
    /\ RegIdle
    /\ ThrIdle
    /\ FixIdle
    /\ RckIdle
    /\ StepIdle
    /\ LooseIdle
    /\ TmIdle
    /\ UpdIdle
    /\ PsIdle

psRestIdle ==
    /\ ChkIdle
    /\ RuleIdle
    /\ StrIdle
    /\ QuotaIdle
    /\ ScIdle
    /\ LifeIdle
    /\ RunIdle
    /\ KrIdle
    /\ ScanIdle
    /\ InfIdle
    /\ TolIdle
    /\ RegIdle
    /\ ThrIdle
    /\ FixIdle
    /\ RckIdle
    /\ StepIdle
    /\ LooseIdle
    /\ TmIdle
    /\ UpdIdle
    /\ KqIdle

\* The balance guard has not been called.
BalIdle == balIn = Nil /\ balOut = Nil

OpRegions == {1}

Schedulers == {"balance-leader", "balance-region"}

\* The coordinator as constructed: no operator, every loop at its timer.
OpIdle ==
    /\ operators = [r \in OpRegions |-> Nil]
    /\ running = {}
    /\ lastSuccess = Nil
    /\ opBeats = 0
    /\ opsCreated = 0
    /\ patrol = [pc |-> "timer", suspects |-> <<>>, regions |-> <<>>, ops |-> <<>>]
    /\ sched = [s \in Schedulers |-> [pc |-> "timer", ops |-> <<>>]]
    /\ lastAdd = "none"

Max(a, b) == IF a >= b THEN a ELSE b

Min(a, b) == IF a <= b THEN a ELSE b

\* The sequences that list every element of the finite set S exactly once.
Orders(S) == {q \in [1..Cardinality(S) -> S] : \A x \in S : \E i \in DOMAIN q : q[i] = x}

Range(q) == {q[i] : i \in DOMAIN q}

(***************************************************************************)
(* Bounds of the model.                                                    *)
(***************************************************************************)
\* Number of region heartbeats in one behaviour.
MaxBeats == 3

\* The stores of the cluster.
Stores == {1, 2, 3}

(***************************************************************************)
(* Constants of server/statistics.                                         *)
(***************************************************************************)
TopNN == 60

\* HotThresholdRatio = 0.8 as the fraction HotThresholdNum / HotThresholdDen.
HotThresholdNum == 4

HotThresholdDen == 5

HotRegionReportMinInterval == 3

hotRegionAntiCount == 2

\* RegionHeartBeatReportInterval, in seconds (statistics package).
RegionHeartBeatReportInterval == 60

\* var Denoising = true (statistics package): the production setting.
Denoising == TRUE

WriteFlow == "write"

ReadFlow == "read"

minHotThresholds ==
    [write |-> [byte |-> 1 * 1024, key |-> 32],
     read  |-> [byte |-> 8 * 1024, key |-> 128]]

(***************************************************************************)
(* movingaverage.AvgOverTime: the sum of the deltas of the last            *)
(* avgInterval seconds, kept as a queue of (delta, interval).              *)
(***************************************************************************)
NewAvgOverTime == [que |-> <<>>, deltaSum |-> 0, intervalSum |-> 0]

RECURSIVE AotPop(_, _)
AotPop(a, avgInterval) ==
    IF Len(a.que) > 0 /\ a.intervalSum - Head(a.que).interval >= avgInterval
    THEN AotPop([que |-> Tail(a.que),
                 deltaSum |-> a.deltaSum - Head(a.que).delta,
                 intervalSum |-> a.intervalSum - Head(a.que).interval], avgInterval)
    ELSE a

AotAdd(a, delta, interval) ==
    IF interval = 0 THEN a
    ELSE LET b == [que |-> Append(a.que, [delta |-> delta, interval |-> interval]),
                   deltaSum |-> a.deltaSum + delta,
                   intervalSum |-> a.intervalSum + interval]
         IN IF b.intervalSum <= RegionHeartBeatReportInterval THEN b
            ELSE AotPop(b, RegionHeartBeatReportInterval)

AotIsFull(a) == a.intervalSum >= RegionHeartBeatReportInterval

AotClear(a) == NewAvgOverTime

\* AvgOverTime.Get() >= t, for a threshold t given in units of 1/HotThresholdDen:
\* Get is 0 below one second of samples and deltaSum / intervalSum otherwise.
AotGetAtLeast(a, t) ==
    IF a.intervalSum < 1 THEN 0 >= t
    ELSE a.deltaSum * HotThresholdDen >= t * a.intervalSum

(***************************************************************************)
(* dimStat (hot_peer.go).  Rolling, the time-median, only orders the       *)
(* entries inside a store's TopN; the model keeps LastAverage, which       *)
(* decides hot degree and anti count.                                      *)
(***************************************************************************)
newDimStat(typ) == [typ |-> typ, LastAverage |-> NewAvgOverTime]

dimAdd(d, delta, interval) == [d EXCEPT !.LastAverage = AotAdd(@, delta, interval)]

isLastAverageHot(d, thresholds) == AotGetAtLeast(d.LastAverage, thresholds[d.typ])

dimIsFull(d) == AotIsFull(d.LastAverage)

dimClearLastAverage(d) == [d EXCEPT !.LastAverage = AotClear(@)]

\* dimStat.Clone: a copy; the model's values are immutable, so the copy is the value.
dimClone(d) == [typ |-> d.typ, LastAverage |-> d.LastAverage]

isFullAndHot(item) ==
    \/ dimIsFull(item.rollingByteRate) /\ isLastAverageHot(item.rollingByteRate, item.thresholds)
    \/ dimIsFull(item.rollingKeyRate) /\ isLastAverageHot(item.rollingKeyRate, item.thresholds)

clearLastAverage(item) ==
    [item EXCEPT !.rollingByteRate = dimClearLastAverage(@),
                 !.rollingKeyRate = dimClearLastAverage(@)]

(***************************************************************************)
(* RegionInfo as the cache reads it: the stores of the peers in            *)
(* region.GetPeers() order, the leader's store, the flow of the report     *)
(* and its interval in seconds.                                            *)
(***************************************************************************)
GetStorePeer(region, storeID) == storeID \in Range(region.peers)

getRegionBytes(region) ==
    IF kind = WriteFlow THEN region.BytesWritten
    ELSE IF kind = ReadFlow THEN region.BytesRead
    ELSE 0

getRegionKeys(region) ==
    IF kind = WriteFlow THEN region.KeysWritten
    ELSE IF kind = ReadFlow THEN region.KeysRead
    ELSE 0

(***************************************************************************)
(* TopN of a store.  The followed region's entry is peersOfStore[store];   *)
(* the topNOthers[store] entries of other regions all report the rate      *)
(* OtherPeerRate, so that with TopNN or more of them the TopN minimum of   *)
(* a dimension is that rate whatever the followed region reports.          *)
(***************************************************************************)
OtherPeerRate(dim) == (minHotThresholds[kind][dim] * 5) \div 2

TopNLen(storeID) == topNOthers[storeID] + (IF peersOfStore[storeID] = Nil THEN 0 ELSE 1)

GetTopNMin(storeID, dim) == OtherPeerRate(dim)

\* Thresholds are held in units of 1/HotThresholdDen, which keeps
\* ret[k]*HotThresholdRatio exact.
\* Mutant: a store with exactly TopNN peers still gets the minimum.
calcHotThresholdsOf_UpToTopNN(k, ok, len, topNMin) ==
    LET minThresholds == minHotThresholds[k]
    IN IF ~ok \/ len <= TopNN
       THEN [byte |-> minThresholds.byte * HotThresholdDen,
             key  |-> minThresholds.key * HotThresholdDen]
       ELSE [byte |-> Max(topNMin.byte * HotThresholdNum,
                          minThresholds.byte * HotThresholdDen),
             key  |-> Max(topNMin.key * HotThresholdNum,
                          minThresholds.key * HotThresholdDen)]

\* calcHotThresholds for flow kind k, given whether the store has a TopN,
\* its length, and the byte and key rates of its TopN minimum.
calcHotThresholdsOf(k, ok, len, topNMin) ==
    LET minThresholds == minHotThresholds[k]
    IN IF ~ok \/ len < TopNN
       THEN [byte |-> minThresholds.byte * HotThresholdDen,
             key  |-> minThresholds.key * HotThresholdDen]
       ELSE [byte |-> Max(topNMin.byte * HotThresholdNum,
                          minThresholds.byte * HotThresholdDen),
             key  |-> Max(topNMin.key * HotThresholdNum,
                          minThresholds.key * HotThresholdDen)]

calcHotThresholds(storeID) ==
    calcHotThresholdsOf(kind, TRUE, TopNLen(storeID),
                        [byte |-> GetTopNMin(storeID, "byte"),
                         key  |-> GetTopNMin(storeID, "key")])

\* delta / interval >= t for t in units of 1/HotThresholdDen, interval > 0.
RateAtLeast(delta, interval, t) == delta * HotThresholdDen >= t * interval

getOldHotPeerStat(storeID) == peersOfStore[storeID]

\* Mutant: read flow too looks for a peer on the store.
isRegionExpired_AnyPeer(region, storeID) ==
    IF kind = WriteFlow THEN ~GetStorePeer(region, storeID)
    ELSE IF kind = ReadFlow THEN ~GetStorePeer(region, storeID)
    ELSE FALSE

isRegionExpired(region, storeID) ==
    IF kind = WriteFlow THEN ~GetStorePeer(region, storeID)
    ELSE IF kind = ReadFlow THEN region.leader # storeID
    ELSE FALSE

\* order: the iteration order of the map f.storesOfRegion[region].
getAllStoreIDs(region, order) ==
    LET new == SelectSeq(region.peers,
                   LAMBDA s : /\ ~(kind = ReadFlow /\ s # region.leader)
                              /\ s \notin storesOfRegion)
    IN order \o new

isOldColdPeer(oldItem, storeID) ==
    LET isOldPeer == storeID \in Range(oldItem.peers)
        noInCache == storeID \notin storesOfRegion
    IN isOldPeer /\ noInCache

justTransferLeader(region, order) ==
    LET hits == {i \in DOMAIN order :
                    /\ getOldHotPeerStat(order[i]) # Nil
                    /\ getOldHotPeerStat(order[i]).isLeader}
    IN IF hits = {} THEN FALSE
       ELSE LET first == CHOOSE i \in hits : \A j \in hits : i <= j
            IN getOldHotPeerStat(order[first]).StoreID # region.leader

(***************************************************************************)
(* updateHotPeerStat.  t is time.Now().  The result is the item to hand    *)
(* to Update, or Nil.                                                      *)
(***************************************************************************)
\* Mutant: the item is created whether or not the report is hot.
updateNoOldItem_NoHotCheck(newItem, bytes, keys, interval) ==
    IF interval = 0 THEN Nil
    ELSE LET a == IF interval >= RegionHeartBeatReportInterval
                  THEN [newItem EXCEPT !.HotDegree = 1,
                                       !.AntiCount = hotRegionAntiCount,
                                       !.allowAdopt = TRUE]
                  ELSE newItem
             b == [a EXCEPT !.isNew = TRUE,
                            !.rollingByteRate = dimAdd(newDimStat("byte"), bytes, interval),
                            !.rollingKeyRate = dimAdd(newDimStat("key"), keys, interval)]
         IN IF dimIsFull(b.rollingKeyRate) THEN clearLastAverage(b) ELSE b

\* Mutant: the new item starts at HotDegree 1 whatever the report's interval.
updateNoOldItem_AnyInterval(newItem, bytes, keys, interval) ==
    IF interval = 0 THEN Nil
    ELSE LET isHot == \/ RateAtLeast(bytes, interval, newItem.thresholds.byte)
                      \/ RateAtLeast(keys, interval, newItem.thresholds.key)
         IN IF ~isHot THEN Nil
            ELSE LET b == [newItem EXCEPT !.HotDegree = 1,
                                          !.AntiCount = hotRegionAntiCount,
                                          !.allowAdopt = TRUE,
                                          !.isNew = TRUE,
                                          !.rollingByteRate = dimAdd(newDimStat("byte"), bytes, interval),
                                          !.rollingKeyRate = dimAdd(newDimStat("key"), keys, interval)]
                 IN IF dimIsFull(b.rollingKeyRate) THEN clearLastAverage(b) ELSE b

updateNoOldItem(newItem, bytes, keys, interval) ==
    IF interval = 0 THEN Nil
    ELSE LET isHot == \/ RateAtLeast(bytes, interval, newItem.thresholds.byte)
                      \/ RateAtLeast(keys, interval, newItem.thresholds.key)
         IN IF ~isHot THEN Nil
            ELSE LET a == IF interval >= RegionHeartBeatReportInterval
                          THEN [newItem EXCEPT !.HotDegree = 1,
                                               !.AntiCount = hotRegionAntiCount,
                                               !.allowAdopt = TRUE]
                          ELSE newItem
                     b == [a EXCEPT !.isNew = TRUE,
                                    !.rollingByteRate = dimAdd(newDimStat("byte"), bytes, interval),
                                    !.rollingKeyRate = dimAdd(newDimStat("key"), keys, interval)]
                 IN IF dimIsFull(b.rollingKeyRate) THEN clearLastAverage(b) ELSE b

\* Mutant: the leader transfer is treated as a hot report.
updateTransferLeader_CountsHot(newItem, oldItem, t) ==
    [newItem EXCEPT !.HotDegree = oldItem.HotDegree + 1,
                    !.AntiCount = hotRegionAntiCount,
                    !.lastTransferLeaderTime = t]

updateTransferLeader(newItem, oldItem, t) ==
    [newItem EXCEPT !.HotDegree = oldItem.HotDegree,
                    !.AntiCount = oldItem.AntiCount,
                    !.lastTransferLeaderTime = t]

\* Mutant: a full hot window keeps the old HotDegree.
updateFullWindow_KeepDegree(newItem, oldItem) ==
    LET r == IF isOldColdPeer(oldItem, newItem.StoreID)
             THEN IF isFullAndHot(newItem)
                  THEN [newItem EXCEPT !.HotDegree = 1,
                                       !.allowAdopt = TRUE,
                                       !.AntiCount = hotRegionAntiCount]
                  ELSE [newItem EXCEPT !.needDelete = TRUE]
             ELSE IF isFullAndHot(newItem)
                  THEN [newItem EXCEPT !.HotDegree = oldItem.HotDegree,
                                       !.AntiCount = hotRegionAntiCount,
                                       !.allowAdopt = TRUE]
                  ELSE IF oldItem.AntiCount - 1 <= 0
                       THEN [newItem EXCEPT !.HotDegree = oldItem.HotDegree - 1,
                                            !.AntiCount = oldItem.AntiCount - 1,
                                            !.needDelete = TRUE]
                       ELSE [newItem EXCEPT !.HotDegree = oldItem.HotDegree - 1,
                                            !.AntiCount = oldItem.AntiCount - 1,
                                            !.allowAdopt = TRUE]
    IN clearLastAverage(r)

\* Mutant: the entry is deleted one cold report late (AntiCount < 0).
updateFullWindow_LateDelete(newItem, oldItem) ==
    LET r == IF isOldColdPeer(oldItem, newItem.StoreID)
             THEN IF isFullAndHot(newItem)
                  THEN [newItem EXCEPT !.HotDegree = 1,
                                       !.allowAdopt = TRUE,
                                       !.AntiCount = hotRegionAntiCount]
                  ELSE [newItem EXCEPT !.needDelete = TRUE]
             ELSE IF isFullAndHot(newItem)
                  THEN [newItem EXCEPT !.HotDegree = oldItem.HotDegree + 1,
                                       !.AntiCount = hotRegionAntiCount,
                                       !.allowAdopt = TRUE]
                  ELSE IF oldItem.AntiCount - 1 < 0
                       THEN [newItem EXCEPT !.HotDegree = oldItem.HotDegree - 1,
                                            !.AntiCount = oldItem.AntiCount - 1,
                                            !.needDelete = TRUE]
                       ELSE [newItem EXCEPT !.HotDegree = oldItem.HotDegree - 1,
                                            !.AntiCount = oldItem.AntiCount - 1,
                                            !.allowAdopt = TRUE]
    IN clearLastAverage(r)

updateFullWindow(newItem, oldItem) ==
    LET r == IF isOldColdPeer(oldItem, newItem.StoreID)
             THEN IF isFullAndHot(newItem)
                  THEN [newItem EXCEPT !.HotDegree = 1,
                                       !.allowAdopt = TRUE,
                                       !.AntiCount = hotRegionAntiCount]
                  ELSE [newItem EXCEPT !.needDelete = TRUE]
             ELSE IF isFullAndHot(newItem)
                  THEN [newItem EXCEPT !.HotDegree = oldItem.HotDegree + 1,
                                       !.AntiCount = hotRegionAntiCount,
                                       !.allowAdopt = TRUE]
                  ELSE IF oldItem.AntiCount - 1 <= 0
                       THEN [newItem EXCEPT !.HotDegree = oldItem.HotDegree - 1,
                                            !.AntiCount = oldItem.AntiCount - 1,
                                            !.needDelete = TRUE]
                       ELSE [newItem EXCEPT !.HotDegree = oldItem.HotDegree - 1,
                                            !.AntiCount = oldItem.AntiCount - 1,
                                            !.allowAdopt = TRUE]
    IN clearLastAverage(r)

\* Mutant: a window that is not yet full restarts the anti count.
updateNotFull_ResetsAntiCount(newItem, oldItem) ==
    [newItem EXCEPT !.HotDegree = oldItem.HotDegree,
                    !.AntiCount = hotRegionAntiCount]

\* The branch "not update hot degree and anti count".
updateNotFull(newItem, oldItem) ==
    [newItem EXCEPT !.HotDegree = oldItem.HotDegree,
                    !.AntiCount = oldItem.AntiCount]

updateHotPeerStat(newItem, oldItem, bytes, keys, interval, t) ==
    IF newItem.needDelete THEN newItem
    ELSE IF oldItem = Nil THEN updateNoOldItem(newItem, bytes, keys, interval)
    ELSE LET a == IF newItem.source = "adopt"
                  THEN [newItem EXCEPT !.rollingByteRate = dimClone(oldItem.rollingByteRate),
                                       !.rollingKeyRate = dimClone(oldItem.rollingKeyRate),
                                       !.allowAdopt = FALSE]
                  ELSE [newItem EXCEPT !.rollingByteRate = oldItem.rollingByteRate,
                                       !.rollingKeyRate = oldItem.rollingKeyRate,
                                       !.allowAdopt = oldItem.allowAdopt]
         IN IF a.justTransferLeader THEN updateTransferLeader(a, oldItem, t)
            ELSE LET b == [a EXCEPT !.lastTransferLeaderTime = oldItem.lastTransferLeaderTime,
                                    !.rollingByteRate = dimAdd(@, bytes, interval),
                                    !.rollingKeyRate = dimAdd(@, keys, interval)]
                 IN IF ~dimIsFull(b.rollingKeyRate)
                    THEN updateNotFull(b, oldItem)
                    ELSE updateFullWindow(b, oldItem)

(***************************************************************************)
(* CheckRegionFlow.  The loop over storeIDs is a fold whose accumulator    *)
(* holds ret, tmpItem and, because newItem shares the rolling statistics   *)
(* of its oldItem by pointer, the rolling statistics of the cached         *)
(* entries as the loop has changed them so far (objs).  used records,      *)
(* per store, whose entry served as oldItem.                               *)
(***************************************************************************)
\* The cached entry of a store as the loop sees it through its pointers.
oldItemView(storeID, objs) ==
    IF getOldHotPeerStat(storeID) = Nil THEN Nil
    ELSE [getOldHotPeerStat(storeID) EXCEPT !.rollingByteRate = objs[storeID].byte,
                                            !.rollingKeyRate = objs[storeID].key]

\* Mutant: the first entry found is adopted whether it allows it or not.
adoptScan_AnyEntry(storeIDs, objs) ==
    LET hits == {i \in DOMAIN storeIDs : getOldHotPeerStat(storeIDs[i]) # Nil}
    IN IF hits # {}
       THEN [item |-> oldItemView(storeIDs[CHOOSE i \in hits : \A j \in hits : i <= j], objs),
             source |-> "adopt"]
       ELSE [item |-> Nil, source |-> "direct"]

\* for _, storeID := range storeIDs { oldItem = ...; if adoptable { break } }:
\* the first adoptable entry, else whatever the last iteration left in oldItem.
adoptScan(storeIDs, objs) ==
    LET hits == {i \in DOMAIN storeIDs :
                    /\ getOldHotPeerStat(storeIDs[i]) # Nil
                    /\ getOldHotPeerStat(storeIDs[i]).allowAdopt}
    IN IF hits # {}
       THEN [item |-> oldItemView(storeIDs[CHOOSE i \in hits : \A j \in hits : i <= j], objs),
             source |-> "adopt"]
       ELSE [item |-> IF Len(storeIDs) = 0 THEN Nil
                      ELSE oldItemView(storeIDs[Len(storeIDs)], objs),
             source |-> "direct"]

\* Mutant: tmpItem is kept after a store has inherited it.
flowStep_KeepsTmpItem(region, storeIDs, storeID, jtl, t, acc) ==
    LET bytes == getRegionBytes(region)
        keys == getRegionKeys(region)
        interval == region.interval
        isExpired == isRegionExpired(region, storeID)
        own == oldItemView(storeID, acc.objs)
        tmp1 == IF isExpired /\ own # Nil THEN own ELSE acc.tmpItem
    IN IF ~isExpired /\ Denoising /\ interval < HotRegionReportMinInterval
       THEN [acc EXCEPT !.tmpItem = tmp1]
       ELSE LET inherits == own = Nil /\ tmp1 # Nil /\ tmp1.AntiCount > 0
                scan == adoptScan(storeIDs, acc.objs)
                oldItem == IF own # Nil THEN own
                           ELSE IF inherits THEN tmp1
                           ELSE scan.item
                source == IF own # Nil THEN "direct"
                          ELSE IF inherits THEN "inherit"
                          ELSE scan.source
                tmp2 == tmp1
                newItem == [StoreID |-> storeID,
                            Kind |-> kind,
                            HotDegree |-> 0,
                            AntiCount |-> 0,
                            needDelete |-> isExpired,
                            isLeader |-> region.leader = storeID,
                            isNew |-> FALSE,
                            justTransferLeader |-> jtl,
                            allowAdopt |-> FALSE,
                            peers |-> region.peers,
                            thresholds |-> calcHotThresholds(storeID),
                            source |-> source,
                            rollingByteRate |-> Nil,
                            rollingKeyRate |-> Nil,
                            lastTransferLeaderTime |-> 0]
                res == updateHotPeerStat(newItem, oldItem, bytes, keys, interval, t)
                shared == res # Nil /\ ~isExpired /\ oldItem # Nil /\ source # "adopt"
            IN [ret |-> IF res # Nil THEN Append(acc.ret, res) ELSE acc.ret,
                tmpItem |-> tmp2,
                objs |-> IF shared
                         THEN [acc.objs EXCEPT ![oldItem.StoreID] =
                                  [byte |-> res.rollingByteRate, key |-> res.rollingKeyRate]]
                         ELSE acc.objs,
                used |-> [acc.used EXCEPT ![storeID] =
                             IF isExpired \/ oldItem = Nil THEN 0 ELSE oldItem.StoreID]]

flowStep(region, storeIDs, storeID, jtl, t, acc) ==
    LET bytes == getRegionBytes(region)
        keys == getRegionKeys(region)
        interval == region.interval
        isExpired == isRegionExpired(region, storeID)
        own == oldItemView(storeID, acc.objs)
        tmp1 == IF isExpired /\ own # Nil THEN own ELSE acc.tmpItem
    IN IF ~isExpired /\ Denoising /\ interval < HotRegionReportMinInterval
       THEN [acc EXCEPT !.tmpItem = tmp1]
       ELSE LET inherits == own = Nil /\ tmp1 # Nil /\ tmp1.AntiCount > 0
                scan == adoptScan(storeIDs, acc.objs)
                oldItem == IF own # Nil THEN own
                           ELSE IF inherits THEN tmp1
                           ELSE scan.item
                source == IF own # Nil THEN "direct"
                          ELSE IF inherits THEN "inherit"
                          ELSE scan.source
                tmp2 == IF inherits THEN Nil ELSE tmp1
                newItem == [StoreID |-> storeID,
                            Kind |-> kind,
                            HotDegree |-> 0,
                            AntiCount |-> 0,
                            needDelete |-> isExpired,
                            isLeader |-> region.leader = storeID,
                            isNew |-> FALSE,
                            justTransferLeader |-> jtl,
                            allowAdopt |-> FALSE,
                            peers |-> region.peers,
                            thresholds |-> calcHotThresholds(storeID),
                            source |-> source,
                            rollingByteRate |-> Nil,
                            rollingKeyRate |-> Nil,
                            lastTransferLeaderTime |-> 0]
                res == updateHotPeerStat(newItem, oldItem, bytes, keys, interval, t)
                shared == res # Nil /\ ~isExpired /\ oldItem # Nil /\ source # "adopt"
            IN [ret |-> IF res # Nil THEN Append(acc.ret, res) ELSE acc.ret,
                tmpItem |-> tmp2,
                objs |-> IF shared
                         THEN [acc.objs EXCEPT ![oldItem.StoreID] =
                                  [byte |-> res.rollingByteRate, key |-> res.rollingKeyRate]]
                         ELSE acc.objs,
                used |-> [acc.used EXCEPT ![storeID] =
                             IF isExpired \/ oldItem = Nil THEN 0 ELSE oldItem.StoreID]]

RECURSIVE flowLoop(_, _, _, _, _, _)
flowLoop(region, storeIDs, i, jtl, t, acc) ==
    IF i > Len(storeIDs) THEN acc
    ELSE flowLoop(region, storeIDs, i + 1, jtl, t,
                  flowStep(region, storeIDs, storeIDs[i], jtl, t, acc))

CheckRegionFlow(region, order, t) ==
    flowLoop(region, getAllStoreIDs(region, order), 1, justTransferLeader(region, order), t,
             [ret |-> <<>>,
              tmpItem |-> Nil,
              objs |-> [s \in Stores |->
                          IF getOldHotPeerStat(s) = Nil THEN Nil
                          ELSE [byte |-> getOldHotPeerStat(s).rollingByteRate,
                                key |-> getOldHotPeerStat(s).rollingKeyRate]],
              used |-> [s \in Stores |-> 0]])

(***************************************************************************)
(* Update, applied by the heartbeat handler to every returned item.        *)
(* c is the pair of maps [peers, stores].                                  *)
(***************************************************************************)
Update(c, item) ==
    IF item.needDelete
    THEN [peers |-> [c.peers EXCEPT ![item.StoreID] = Nil],
          stores |-> c.stores \ {item.StoreID}]
    ELSE [peers |-> [c.peers EXCEPT ![item.StoreID] = item],
          stores |-> c.stores \cup {item.StoreID}]

RECURSIVE UpdateAll(_, _, _)
UpdateAll(c, items, i) ==
    IF i > Len(items) THEN c ELSE UpdateAll(Update(c, items[i]), items, i + 1)

(***************************************************************************)
(* The reports a heartbeat may carry: no flow; bytes that over a full       *)
(* report interval are three times the minimum hot byte threshold; keys    *)
(* that over a full report interval are exactly the minimum hot key        *)
(* threshold.                                                              *)
(***************************************************************************)
HotBytes == 3 * minHotThresholds[kind].byte * RegionHeartBeatReportInterval

HotKeys == minHotThresholds[kind].key * RegionHeartBeatReportInterval

Flows == {[bytes |-> 0, keys |-> 0], [bytes |-> HotBytes, keys |-> 0], [bytes |-> 0, keys |-> HotKeys]}

\* Seconds between the start and the end of the reported interval.
Intervals == {2, 30, 60}

PeerLists == {<<1>>, <<2>>, <<1, 2>>}

Regions ==
    {[peers |-> p, leader |-> l,
      BytesWritten |-> IF kind = WriteFlow THEN f.bytes ELSE 0,
      KeysWritten |-> IF kind = WriteFlow THEN f.keys ELSE 0,
      BytesRead |-> IF kind = ReadFlow THEN f.bytes ELSE 0,
      KeysRead |-> IF kind = ReadFlow THEN f.keys ELSE 0,
      interval |-> d] :
        p \in PeerLists, l \in Stores, f \in Flows, d \in Intervals}

(***************************************************************************)
(* What a heartbeat is to one store, read off the report and the cache     *)
(* before it is handled.                                                   *)
(***************************************************************************)
\* The cache follows the store for this region: a peer is on it (write flow),
\* or the leader is (read flow).
Tracked(s, region) ==
    IF kind = WriteFlow THEN s \in Range(region.peers) ELSE region.leader = s

\* The instantaneous byte or key rate is at or above the store's threshold.
HotReport(s, region) ==
    /\ region.interval > 0
    /\ \/ RateAtLeast(getRegionBytes(region), region.interval, calcHotThresholds(s).byte)
       \/ RateAtLeast(getRegionKeys(region), region.interval, calcHotThresholds(s).key)

\* The instantaneous byte or key rate is strictly above the store's threshold.
AboveReport(s, region) ==
    /\ region.interval > 0
    /\ \/ getRegionBytes(region) * HotThresholdDen > calcHotThresholds(s).byte * region.interval
       \/ getRegionKeys(region) * HotThresholdDen > calcHotThresholds(s).key * region.interval

\* Both instantaneous rates are strictly below the store's thresholds.
BelowReport(s, region) ==
    /\ region.interval > 0
    /\ getRegionBytes(region) * HotThresholdDen < calcHotThresholds(s).byte * region.interval
    /\ getRegionKeys(region) * HotThresholdDen < calcHotThresholds(s).key * region.interval

\* The store has no entry of the region, and no entry of the region on any
\* store can be inherited (expired with a positive AntiCount) or adopted.
NoOldItemFor(s, region) ==
    /\ peersOfStore[s] = Nil
    /\ \A o \in Stores :
          peersOfStore[o] # Nil =>
             /\ ~peersOfStore[o].allowAdopt
             /\ ~(isRegionExpired(region, o) /\ peersOfStore[o].AntiCount > 0)

\* Length of the run of consecutive heartbeats that, for store s, began with no
\* old item and each had a full report interval, a hot rate, the peer on the
\* store and the leader where the heartbeat before had it.
nextHotRun(s, region) ==
    IF ~(Tracked(s, region) /\ region.interval >= RegionHeartBeatReportInterval
         /\ HotReport(s, region))
    THEN 0
    ELSE IF hotRun[s] > 0 /\ region.leader = hb.leader THEN hotRun[s] + 1
    ELSE IF NoOldItemFor(s, region) THEN 1
    ELSE 0

\* Length of the run of consecutive heartbeats that, for store s, began with no
\* cache entry and each had the same interval and a rate above the threshold
\* (reports ignored as too fast are not counted).
nextRawRun(s, region) ==
    IF ~(Tracked(s, region) /\ AboveReport(s, region)
         /\ region.interval >= HotRegionReportMinInterval)
    THEN 0
    ELSE IF rawRun[s] > 0 /\ region.interval = hb.interval THEN rawRun[s] + 1
    ELSE IF peersOfStore[s] = Nil THEN 1
    ELSE 0

InitHot ==
    /\ kind \in {WriteFlow, ReadFlow}
    /\ topNOthers \in {[s \in Stores |-> 0], [s \in Stores |-> IF s = 1 THEN TopNN ELSE 0]}
    /\ peersOfStore = [s \in Stores |-> Nil]
    /\ storesOfRegion = {}
    /\ now = 0
    /\ hb = Nil
    /\ ret = <<>>
    /\ oldOf = [s \in Stores |-> 0]
    /\ hotRun = [s \in Stores |-> 0]
    /\ rawRun = [s \in Stores |-> 0]

\* One region heartbeat: CheckRegionFlow, then Update of every returned item.
RegionHeartbeat ==
    /\ now < MaxBeats
    /\ \E region \in Regions, order \in Orders(storesOfRegion) :
          /\ region.leader \in Range(region.peers)
          /\ LET out == CheckRegionFlow(region, order, now + 1)
                 c == UpdateAll([peers |-> peersOfStore, stores |-> storesOfRegion], out.ret, 1)
             IN /\ peersOfStore' = c.peers
                /\ storesOfRegion' = c.stores
                /\ ret' = out.ret
                /\ oldOf' = out.used
                /\ hb' = region
                /\ now' = now + 1
                /\ hotRun' = [s \in Stores |-> nextHotRun(s, region)]
                /\ rawRun' = [s \in Stores |-> nextRawRun(s, region)]
    /\ UNCHANGED <<kind, topNOthers>>
    /\ UNCHANGED hotOthers

\* The hot-peer cache as constructed, write flow, and no heartbeat handled.
HotIdle ==
    /\ kind = WriteFlow
    /\ topNOthers = [s \in Stores |-> 0]
    /\ peersOfStore = [s \in Stores |-> Nil]
    /\ storesOfRegion = {}
    /\ now = 0
    /\ hb = Nil
    /\ ret = <<>>
    /\ oldOf = [s \in Stores |-> 0]
    /\ hotRun = [s \in Stores |-> 0]
    /\ rawRun = [s \in Stores |-> 0]

Init == InitHot /\ BalIdle /\ OpIdle /\ RestIdle

NextHot == RegionHeartbeat

SpecHot == Init /\ [][NextHot]_vars

(***************************************************************************)
(* Reading a transition of the hot-peer cache: the item returned for a     *)
(* store, the old item it was built on, and the rolling window as the      *)
(* heartbeat leaves it before it is cleared.                               *)
(***************************************************************************)
RetOf(r, s) ==
    IF \E i \in DOMAIN r : r[i].StoreID = s
    THEN r[CHOOSE i \in DOMAIN r : r[i].StoreID = s]
    ELSE Nil

\* Some cached entry marks its store as the leader's and the report names another.
LeaderJustMoved(region) ==
    \E o \in storesOfRegion :
        /\ peersOfStore[o] # Nil
        /\ peersOfStore[o].isLeader
        /\ o # region.leader

\* The key-rate window of the cached entry of s once the report's sample is in.
WindowAfter(s, region) ==
    dimAdd(peersOfStore[s].rollingKeyRate, getRegionKeys(region), region.interval)

ByteWindowAfter(s, region) ==
    dimAdd(peersOfStore[s].rollingByteRate, getRegionBytes(region), region.interval)

\* The report fills the window of the cached entry of s.
FullReport(s, region) == dimIsFull(WindowAfter(s, region))

\* ... and a last average of the full window reaches the store's threshold.
FullHotReport(s, region) ==
    /\ FullReport(s, region)
    /\ \/ isLastAverageHot(ByteWindowAfter(s, region), calcHotThresholds(s))
       \/ isLastAverageHot(WindowAfter(s, region), calcHotThresholds(s))

FullColdReport(s, region) == FullReport(s, region) /\ ~FullHotReport(s, region)

\* The heartbeat is handled for the cached entry of s: the peer has not
\* expired, the report is not ignored as too fast, the leader has not just moved.
SampledReport(s, region) ==
    /\ peersOfStore[s] # Nil
    /\ Tracked(s, region)
    /\ region.interval >= HotRegionReportMinInterval
    /\ ~LeaderJustMoved(region)

(***************************************************************************)
(* C3.  As claimed: after N consecutive heartbeats at one interval with a  *)
(* rate above the threshold, begun with no cache entry, HotDegree is N.    *)
(***************************************************************************)
C3_Original ==
    \A s \in Stores :
        rawRun[s] > 0 => peersOfStore[s] # Nil /\ peersOfStore[s].HotDegree = rawRun[s]

\* C3, amended: after N consecutive heartbeats that began with no old item for
\* the peer and each had an interval of at least RegionHeartBeatReportInterval,
\* a byte or key rate at or above the store's threshold, the peer still on the
\* store and the leader unchanged, the peer is cached with HotDegree = N (so
\* HotDegree grows by one per heartbeat of the run and never decreases).
C3_HotDegreeCountsRun ==
    \A s \in Stores :
        hotRun[s] > 0 => peersOfStore[s] # Nil /\ peersOfStore[s].HotDegree = hotRun[s]

C3_Witness ==
    \E s \in Stores :
        /\ hotRun[s] >= 3
        /\ peersOfStore[s] # Nil
        /\ peersOfStore[s].HotDegree = hotRun[s]

(***************************************************************************)
(* C4.  A report that fills the window of a cached peer with a cold last   *)
(* average lowers HotDegree and AntiCount by one and deletes the entry     *)
(* exactly when the new AntiCount is <= 0; one that fills it with a hot    *)
(* last average sets AntiCount back to hotRegionAntiCount.  Hence an entry *)
(* with AntiCount 2 goes 2 -> 1 -> deleted on two cold reports in a row.   *)
(***************************************************************************)
C4_Step(s) ==
    SampledReport(s, hb') =>
        LET it == RetOf(ret', s)
            old == peersOfStore[s]
        IN /\ it # Nil
           /\ FullColdReport(s, hb') =>
                 /\ it.HotDegree = old.HotDegree - 1
                 /\ it.AntiCount = old.AntiCount - 1
                 /\ it.needDelete <=> it.AntiCount <= 0
                 /\ peersOfStore'[s] = Nil <=> it.needDelete
                 /\ old.AntiCount = hotRegionAntiCount =>
                       peersOfStore'[s] # Nil /\ peersOfStore'[s].AntiCount = 1
                 /\ old.AntiCount = 1 => peersOfStore'[s] = Nil
           /\ FullHotReport(s, hb') =>
                 /\ peersOfStore'[s] # Nil
                 /\ peersOfStore'[s].AntiCount = hotRegionAntiCount

C4_ColdReportCountsDown == [][\A s \in Stores : C4_Step(s)]_vars

\* A cold report has just taken the last AntiCount of an entry and deleted it.
C4_Witness ==
    \E s \in Stores :
        /\ RetOf(ret, s) # Nil
        /\ Tracked(s, hb)
        /\ RetOf(ret, s).needDelete
        /\ RetOf(ret, s).AntiCount = 0
        /\ oldOf[s] = s
        /\ peersOfStore[s] = Nil

(***************************************************************************)
(* C5.  As claimed: a peer is cached if and only if the rate of its last   *)
(* report is above the threshold of its store (read after a report over a  *)
(* full report interval, whose rate is its last average, and counting a    *)
(* rate equal to the threshold as above it).                               *)
(***************************************************************************)
C5_Original ==
    (hb # Nil /\ hb.interval >= RegionHeartBeatReportInterval) =>
        \A s \in Stores :
            peersOfStore[s] # Nil <=> (Tracked(s, hb) /\ HotReport(s, hb))

\* C5, amended: a peer with no old item enters the cache only on a heartbeat
\* whose byte or key rate is at or above max(minThreshold, 0.8 x topN-min) of
\* its store, and a cached peer leaves the cache only when it has expired or a
\* full window's byte and key last averages are both below that threshold; a
\* cached peer whose rate fell below the threshold stays while AntiCount lasts.
C5_Step(s) ==
    /\ (peersOfStore[s] = Nil /\ peersOfStore'[s] # Nil /\ oldOf'[s] = 0) =>
          Tracked(s, hb') /\ HotReport(s, hb')
    /\ (peersOfStore[s] # Nil /\ peersOfStore'[s] = Nil) =>
          \/ ~Tracked(s, hb')
          \/ SampledReport(s, hb') /\ FullColdReport(s, hb')
    /\ (SampledReport(s, hb') /\ FullColdReport(s, hb') /\ peersOfStore[s].AntiCount > 1) =>
          peersOfStore'[s] # Nil

C5_EntersHotLeavesCold == [][\A s \in Stores : C5_Step(s)]_vars

\* A cached peer whose last report was cold and filled its window is still cached.
C5_Witness ==
    \E s \in Stores :
        /\ peersOfStore[s] # Nil
        /\ oldOf[s] = s
        /\ Tracked(s, hb)
        /\ BelowReport(s, hb)
        /\ hb.interval >= RegionHeartBeatReportInterval
        /\ peersOfStore[s].AntiCount = 1

(***************************************************************************)
(* C6.  As claimed: no entry kept in the cache has AntiCount <= 0.         *)
(***************************************************************************)
C6_Original ==
    \A s \in Stores : peersOfStore[s] # Nil => peersOfStore[s].AntiCount > 0

\* C6, amended: an entry kept in the cache has AntiCount in 0..hotRegionAntiCount,
\* and AntiCount = 0 only for an entry that was created by a report shorter than
\* the report interval and has not completed a window since: its HotDegree is 0
\* and it cannot be adopted.  An entry whose AntiCount a full cold window lowers
\* to zero is evicted, so no entry with a positive HotDegree or with allowAdopt
\* set is kept at AntiCount 0.
C6_KeptEntriesAntiCount ==
    \A s \in Stores :
        peersOfStore[s] # Nil =>
            /\ peersOfStore[s].AntiCount \in 0..hotRegionAntiCount
            /\ ~peersOfStore[s].needDelete
            /\ peersOfStore[s].AntiCount = 0 =>
                  /\ peersOfStore[s].HotDegree = 0
                  /\ ~peersOfStore[s].allowAdopt
            /\ s \in storesOfRegion

\* An entry has just been evicted by the cold report that took its last AntiCount.
C6_Witness ==
    \E s \in Stores :
        /\ RetOf(ret, s) # Nil
        /\ Tracked(s, hb)
        /\ RetOf(ret, s).needDelete
        /\ RetOf(ret, s).AntiCount = 0
        /\ RetOf(ret, s).allowAdopt
        /\ peersOfStore[s] = Nil
        /\ s \notin storesOfRegion

(***************************************************************************)
(* C7.  As claimed: with no old item, a rate above the threshold creates   *)
(* an item with HotDegree 1, AntiCount 2, allowAdopt and isNew; rates      *)
(* below both thresholds create none (reports ignored as too fast aside).  *)
(***************************************************************************)
C7_OriginalStep(s) ==
    (NoOldItemFor(s, hb') /\ Tracked(s, hb')
     /\ hb'.interval >= HotRegionReportMinInterval) =>
        /\ AboveReport(s, hb') =>
              LET it == RetOf(ret', s)
              IN /\ it # Nil
                 /\ it.HotDegree = 1
                 /\ it.AntiCount = hotRegionAntiCount
                 /\ it.allowAdopt
                 /\ it.isNew
        /\ BelowReport(s, hb') => RetOf(ret', s) = Nil

C7_Original == [][\A s \in Stores : C7_OriginalStep(s)]_vars

\* C7, amended: with no old item and a byte or key rate at or above the
\* threshold, a report over at least RegionHeartBeatReportInterval creates an
\* item with HotDegree 1, AntiCount 2, allowAdopt and isNew; a shorter report
\* that is not ignored as too fast creates one with HotDegree 0, AntiCount 0,
\* allowAdopt false and isNew; a report ignored as too fast, or one with both
\* rates below their thresholds, creates none.
C7_Step(s) ==
    (NoOldItemFor(s, hb') /\ Tracked(s, hb')) =>
        LET it == RetOf(ret', s)
        IN /\ (HotReport(s, hb') /\ hb'.interval >= RegionHeartBeatReportInterval) =>
                 /\ it # Nil
                 /\ it.HotDegree = 1
                 /\ it.AntiCount = hotRegionAntiCount
                 /\ it.allowAdopt
                 /\ it.isNew
                 /\ ~it.needDelete
                 /\ peersOfStore'[s] = it
           /\ (HotReport(s, hb') /\ hb'.interval >= HotRegionReportMinInterval
                                 /\ hb'.interval < RegionHeartBeatReportInterval) =>
                 /\ it # Nil
                 /\ it.HotDegree = 0
                 /\ it.AntiCount = 0
                 /\ ~it.allowAdopt
                 /\ it.isNew
                 /\ ~it.needDelete
                 /\ peersOfStore'[s] = it
           /\ (hb'.interval < HotRegionReportMinInterval \/ BelowReport(s, hb')) =>
                 /\ it = Nil
                 /\ peersOfStore'[s] = Nil

C7_NewItem == [][\A s \in Stores : C7_Step(s)]_vars

\* Both kinds of new item have been created: the full-interval one and the short one.
C7_Witness ==
    \E s \in Stores :
        /\ peersOfStore[s] # Nil
        /\ oldOf[s] = 0
        /\ peersOfStore[s].isNew
        /\ peersOfStore[s].HotDegree = 1
        /\ peersOfStore[s].AntiCount = hotRegionAntiCount
        /\ hb.interval >= RegionHeartBeatReportInterval

C7_WitnessShort ==
    \E s \in Stores :
        /\ peersOfStore[s] # Nil
        /\ oldOf[s] = 0
        /\ peersOfStore[s].isNew
        /\ peersOfStore[s].HotDegree = 0
        /\ hb.interval < RegionHeartBeatReportInterval

(***************************************************************************)
(* C8.  As claimed: when the leader has just moved, every item built on an *)
(* old item keeps the old HotDegree and AntiCount, gets no flow sample, is *)
(* not marked for deletion and is stamped with the time.                   *)
(***************************************************************************)
\* The old item of the item returned for s, as the loop saw it.
OldSeen(s) == peersOfStore[IF peersOfStore[s] # Nil THEN s ELSE oldOf'[s]]

C8_Carried(s) ==
    LET it == RetOf(ret', s)
        old == OldSeen(s)
    IN /\ it.HotDegree = old.HotDegree
       /\ it.AntiCount = old.AntiCount
       /\ it.rollingByteRate = old.rollingByteRate
       /\ it.rollingKeyRate = old.rollingKeyRate
       /\ ~it.needDelete
       /\ it.lastTransferLeaderTime = now'
       /\ peersOfStore'[s] = it

C8_OriginalStep(s) ==
    (/\ LeaderJustMoved(hb')
     /\ RetOf(ret', s) # Nil
     /\ peersOfStore[s] # Nil \/ oldOf'[s] # 0) => C8_Carried(s)

C8_Original == [][\A s \in Stores : C8_OriginalStep(s)]_vars

\* C8, amended: when the leader has just moved and the peer has an old item and
\* has not expired on this heartbeat (write flow: it is still on the store; read
\* flow: the store is the leader's), the update keeps the old item's HotDegree
\* and AntiCount, adds no flow sample, does not mark the item for deletion and
\* stamps lastTransferLeaderTime; an expired peer is marked for deletion instead.
C8_Step(s) ==
    (LeaderJustMoved(hb') /\ RetOf(ret', s) # Nil) =>
        /\ (Tracked(s, hb') /\ (peersOfStore[s] # Nil \/ oldOf'[s] # 0)) => C8_Carried(s)
        /\ ~Tracked(s, hb') => RetOf(ret', s).needDelete /\ peersOfStore'[s] = Nil

C8_TransferLeaderCarries == [][\A s \in Stores : C8_Step(s)]_vars

\* An entry carried over a leader transfer: stamped now, counts above zero, and
\* a report that would otherwise have filled its window left it as it was.
C8_Witness ==
    \E s \in Stores :
        /\ peersOfStore[s] # Nil
        /\ peersOfStore[s].justTransferLeader
        /\ peersOfStore[s].lastTransferLeaderTime = now
        /\ peersOfStore[s].HotDegree >= 1
        /\ peersOfStore[s].AntiCount >= 1
        /\ oldOf[s] # 0
        /\ hb.interval >= RegionHeartBeatReportInterval

(***************************************************************************)
(* C9.  When the window of an item built on an old item is not yet full    *)
(* once the report's sample is in, HotDegree and AntiCount are those of    *)
(* the old item and the item is not marked for deletion.                   *)
(***************************************************************************)
\* The rolling statistics the item of s starts from: those of its old item; an
\* adopted sibling has been through its own update of this heartbeat before.
StartStat(s) ==
    LET it == RetOf(ret', s)
        o == oldOf'[s]
    IN IF it.source = "adopt"
       THEN [byte |-> RetOf(ret', o).rollingByteRate, key |-> RetOf(ret', o).rollingKeyRate]
       ELSE [byte |-> peersOfStore[o].rollingByteRate, key |-> peersOfStore[o].rollingKeyRate]

C9_Step(s) ==
    LET it == RetOf(ret', s)
    IN (/\ it # Nil
        /\ oldOf'[s] # 0
        /\ ~it.justTransferLeader
        /\ ~dimIsFull(dimAdd(StartStat(s).key, getRegionKeys(hb'), hb'.interval))) =>
           /\ it.HotDegree = peersOfStore[oldOf'[s]].HotDegree
           /\ it.AntiCount = peersOfStore[oldOf'[s]].AntiCount
           /\ ~it.needDelete
           /\ it.rollingKeyRate = dimAdd(StartStat(s).key, getRegionKeys(hb'), hb'.interval)
           /\ it.rollingByteRate = dimAdd(StartStat(s).byte, getRegionBytes(hb'), hb'.interval)
           /\ peersOfStore'[s] = it

C9_NotFullCarries == [][\A s \in Stores : C9_Step(s)]_vars

\* A cached hot entry took a short cold report: its window is part full and its
\* counts are unchanged.
C9_Witness ==
    \E s \in Stores :
        /\ peersOfStore[s] # Nil
        /\ oldOf[s] = s
        /\ ~peersOfStore[s].justTransferLeader
        /\ peersOfStore[s].rollingKeyRate.LastAverage.intervalSum > 0
        /\ ~dimIsFull(peersOfStore[s].rollingKeyRate)
        /\ peersOfStore[s].HotDegree >= 1
        /\ peersOfStore[s].AntiCount = hotRegionAntiCount
        /\ BelowReport(s, hb)

(***************************************************************************)
(* The balance guard of the balance-leader and balance-region schedulers.  *)
(* Ratios are float64 in the code; here they are held in thousandths       *)
(* (RatioDen), which holds adjustRatio = 0.005 exactly, and the inputs are *)
(* chosen so that every product and quotient the code computes is exact in *)
(* float64.  A score is the pair (numerator, weight) of the quotient the   *)
(* code computes; weights are positive, so scores compare by cross         *)
(* multiplication.                                                         *)
(***************************************************************************)
RatioDen == 1000

adjustRatio == 5

leaderTolerantSizeRatio == 5000

minTolerantSizeRatio == 1000

LeaderKind == "leader"

RegionKind == "region"

ByCount == "count"

BySize == "size"

\* The loop of adjustTolerantRatio over cluster.GetStores(): the largest
\* GetStoreRegionCount, starting from 0.
RECURSIVE maxRegionCount(_, _, _)
maxRegionCount(cluster, i, m) ==
    IF i > Len(cluster.stores) THEN m
    ELSE LET regionCount == cluster.storeRegionCount[cluster.stores[i]]
         IN maxRegionCount(cluster, i + 1, IF m < regionCount THEN regionCount ELSE m)

adjustTolerantRatio(cluster) ==
    LET tolerantSizeRatio == IF cluster.isRangeCluster
                             THEN cluster.rangeTolerantSizeRatio
                             ELSE cluster.TolerantSizeRatio
    IN IF tolerantSizeRatio = 0
       THEN LET r == maxRegionCount(cluster, 1, 0) * adjustRatio
            IN IF r < minTolerantSizeRatio THEN minTolerantSizeRatio ELSE r
       ELSE tolerantSizeRatio

getTolerantResource(cluster, region, k) ==
    LET tolerantSizeRatio == adjustTolerantRatio(cluster)
    IN IF k.Resource = LeaderKind /\ k.Policy = ByCount
       THEN LET r == IF tolerantSizeRatio = 0 THEN leaderTolerantSizeRatio
                     ELSE tolerantSizeRatio
            IN (1 * r) \div RatioDen
       ELSE LET regionSize == IF region.ApproximateSize < cluster.AverageRegionSize
                              THEN cluster.AverageRegionSize
                              ELSE region.ApproximateSize
            IN (regionSize * tolerantSizeRatio) \div RatioDen

GetStoreInfluence(opInfluence, id) == opInfluence[id]

ResourceProperty(infl, k) ==
    IF k.Resource = LeaderKind
    THEN IF k.Policy = ByCount THEN infl.LeaderCount
         ELSE IF k.Policy = BySize THEN infl.LeaderSize
         ELSE 0
    ELSE IF k.Resource = RegionKind THEN infl.RegionSize
    ELSE 0

LeaderScore(store, policy, delta) ==
    IF policy = BySize
    THEN [num |-> store.LeaderSize + delta, den |-> store.LeaderWeight]
    ELSE IF policy = ByCount
    THEN [num |-> store.LeaderCount + delta, den |-> store.LeaderWeight]
    ELSE [num |-> 0, den |-> 1]

\* The region score of a store with ample free space: its region size,
\* moved by delta, over its region weight.
RegionScore(store, delta) ==
    [num |-> store.RegionSize + delta, den |-> store.RegionWeight]

ScoreGreater(a, b) == a.num * b.den > b.num * a.den

\* Mutant: equal scores are accepted.
shouldBalance_AcceptsEqual(cluster, source, target, region, k, opInfluence) ==
    LET tolerantResource == getTolerantResource(cluster, region, k)
        sourceInfluence == ResourceProperty(GetStoreInfluence(opInfluence, source.ID), k)
        targetInfluence == ResourceProperty(GetStoreInfluence(opInfluence, target.ID), k)
        sourceDelta == sourceInfluence - tolerantResource
        targetDelta == targetInfluence + tolerantResource
        sourceScore == IF k.Resource = LeaderKind
                       THEN LeaderScore(source, k.Policy, sourceDelta)
                       ELSE RegionScore(source, sourceDelta)
        targetScore == IF k.Resource = LeaderKind
                       THEN LeaderScore(target, k.Policy, targetDelta)
                       ELSE RegionScore(target, targetDelta)
    IN [shouldBalance |-> ~ScoreGreater(targetScore, sourceScore),
        sourceScore |-> sourceScore,
        targetScore |-> targetScore]

shouldBalance(cluster, source, target, region, k, opInfluence) ==
    LET tolerantResource == getTolerantResource(cluster, region, k)
        sourceInfluence == ResourceProperty(GetStoreInfluence(opInfluence, source.ID), k)
        targetInfluence == ResourceProperty(GetStoreInfluence(opInfluence, target.ID), k)
        sourceDelta == sourceInfluence - tolerantResource
        targetDelta == targetInfluence + tolerantResource
        sourceScore == IF k.Resource = LeaderKind
                       THEN LeaderScore(source, k.Policy, sourceDelta)
                       ELSE RegionScore(source, sourceDelta)
        targetScore == IF k.Resource = LeaderKind
                       THEN LeaderScore(target, k.Policy, targetDelta)
                       ELSE RegionScore(target, targetDelta)
    IN [shouldBalance |-> ScoreGreater(sourceScore, targetScore),
        sourceScore |-> sourceScore,
        targetScore |-> targetScore]

(***************************************************************************)
(* The calls of shouldBalance that are explored.                           *)
(***************************************************************************)
\* Largest leader count of a store.
MaxCount == 4

StoreInfos(id) ==
    {[ID |-> id, LeaderCount |-> c, LeaderSize |-> 2 * c, RegionSize |-> 3 * c,
      LeaderWeight |-> w, RegionWeight |-> w] : c \in 0..MaxCount, w \in {1, 2}}

ScheduleKinds ==
    {[Resource |-> LeaderKind, Policy |-> ByCount],
     [Resource |-> LeaderKind, Policy |-> BySize],
     [Resource |-> RegionKind, Policy |-> BySize]}

StoreInfluences ==
    {[LeaderCount |-> i, LeaderSize |-> 2 * i, RegionSize |-> 3 * i] : i \in {-1, 0, 1}}

OpInfluences == [{1, 2} -> StoreInfluences]

\* A configured ratio of 0 asks for the ratio derived from the region counts.
Clusters ==
    {[isRangeCluster |-> r,
      rangeTolerantSizeRatio |-> t[1],
      TolerantSizeRatio |-> t[2],
      AverageRegionSize |-> 2,
      stores |-> <<1, 2>>,
      storeRegionCount |-> n] :
        r \in BOOLEAN, t \in {<<0, 2500>>, <<500, 0>>},
        n \in {<<0, 0>>, <<100, 400>>}}

BalRegions == {[ApproximateSize |-> 1], [ApproximateSize |-> 3]}

\* The arguments of one call of shouldBalance.
BalanceArguments ==
    /\ balIn \in [cluster : Clusters, source : StoreInfos(1), target : StoreInfos(2),
                  region : BalRegions, kind : ScheduleKinds, opInfluence : OpInfluences]
    /\ balOut = Nil

InitBalance == BalanceArguments /\ HotIdle /\ OpIdle /\ RestIdle

ShouldBalance ==
    /\ balIn # Nil
    /\ balOut = Nil
    /\ balOut' = shouldBalance(balIn.cluster, balIn.source, balIn.target,
                               balIn.region, balIn.kind, balIn.opInfluence)
    /\ UNCHANGED balIn
    /\ UNCHANGED balOthers

NextBalance == ShouldBalance

SpecBalance == InitBalance /\ [][NextBalance]_vars

(***************************************************************************)
(* C10.  shouldBalance is true only if the source's score after the move,  *)
(* taken with delta sourceInfluence - tolerantResource, is strictly        *)
(* greater than the target's, taken with delta targetInfluence +           *)
(* tolerantResource; equal scores are rejected.                            *)
(***************************************************************************)
\* What the schedule kind balances of a store: leader count, leader size or
\* region size, and the weight it is divided by.
BalAmount(store, k) ==
    IF k.Resource = RegionKind THEN store.RegionSize
    ELSE IF k.Policy = ByCount THEN store.LeaderCount ELSE store.LeaderSize

BalWeight(store, k) ==
    IF k.Resource = RegionKind THEN store.RegionWeight ELSE store.LeaderWeight

\* Source and target amounts after the move, each times the other's weight.
BalPostMove ==
    LET k == balIn.kind
        tol == getTolerantResource(balIn.cluster, balIn.region, k)
        src == BalAmount(balIn.source, k)
                 + ResourceProperty(balIn.opInfluence[balIn.source.ID], k) - tol
        tgt == BalAmount(balIn.target, k)
                 + ResourceProperty(balIn.opInfluence[balIn.target.ID], k) + tol
    IN [source |-> src * BalWeight(balIn.target, k),
        target |-> tgt * BalWeight(balIn.source, k),
        tolerantResource |-> tol]

C10_StrictlyGreater ==
    balOut # Nil =>
        /\ balOut.shouldBalance => BalPostMove.source > BalPostMove.target
        /\ BalPostMove.source = BalPostMove.target => ~balOut.shouldBalance

\* A call whose post-move scores are equal, with a positive tolerance, was rejected.
C10_Witness ==
    /\ balOut # Nil
    /\ BalPostMove.tolerantResource > 0
    /\ BalPostMove.source = BalPostMove.target
    /\ BalAmount(balIn.source, balIn.kind) > BalAmount(balIn.target, balIn.kind)
    /\ ~balOut.shouldBalance

(***************************************************************************)
(* Operator steps.  A region snapshot, as a heartbeat reports it, is       *)
(*   [leader |-> store, peers |-> [store -> Nil or [Id, IsLearner]],       *)
(*    pending |-> set of peer ids].                                        *)
(* CheckSafety returns "" for a nil error and the error's text otherwise.  *)
(***************************************************************************)
OpStores == {1, 2, 3}

GetStorePeerOf(region, storeID) == region.peers[storeID]

GetStoreVoter(region, storeID) ==
    IF region.peers[storeID] # Nil /\ ~region.peers[storeID].IsLearner
    THEN region.peers[storeID]
    ELSE Nil

GetStoreLearner(region, storeID) ==
    IF region.peers[storeID] # Nil /\ region.peers[storeID].IsLearner
    THEN region.peers[storeID]
    ELSE Nil

\* The pending peer of that id when it is a voter (nil otherwise).
GetPendingVoter(region, peerID) ==
    \E st \in OpStores :
        /\ region.peers[st] # Nil
        /\ region.peers[st].Id = peerID
        /\ ~region.peers[st].IsLearner
        /\ peerID \in region.pending

GetPendingLearner(region, peerID) ==
    \E st \in OpStores :
        /\ region.peers[st] # Nil
        /\ region.peers[st].Id = peerID
        /\ region.peers[st].IsLearner
        /\ peerID \in region.pending

TransferLeaderIsFinish(tl, region) == region.leader = tl.ToStore

TransferLeaderCheckSafety(tl, region) ==
    LET peer == GetStorePeerOf(region, tl.ToStore)
    IN IF peer = Nil THEN "peer does not existed"
       ELSE IF peer.IsLearner THEN "peer already is a learner"
       ELSE ""

\* Mutant: the peer counts as added while it is still a learner.
AddPeerIsFinish_AnyRole(ap, region) ==
    LET p == GetStorePeerOf(region, ap.ToStore)
    IN IF p # Nil
       THEN IF p.Id # ap.PeerID THEN FALSE
            ELSE p.Id \notin region.pending
       ELSE FALSE

AddPeerIsFinish(ap, region) ==
    LET p == GetStoreVoter(region, ap.ToStore)
    IN IF p # Nil
       THEN IF p.Id # ap.PeerID THEN FALSE
            ELSE ~GetPendingVoter(region, p.Id)
       ELSE FALSE

AddPeerCheckSafety(ap, region) ==
    LET peer == GetStorePeerOf(region, ap.ToStore)
    IN IF peer # Nil /\ peer.Id # ap.PeerID
       THEN "peer has already existed in store"
       ELSE ""

AddLearnerIsFinish(al, region) ==
    LET p == GetStoreLearner(region, al.ToStore)
    IN IF p # Nil
       THEN IF p.Id # al.PeerID THEN FALSE
            ELSE ~GetPendingLearner(region, p.Id)
       ELSE FALSE

AddLearnerCheckSafety(al, region) ==
    LET peer == GetStorePeerOf(region, al.ToStore)
    IN IF peer = Nil THEN ""
       ELSE IF peer.Id # al.PeerID THEN "peer has already existed in store"
       ELSE IF ~peer.IsLearner THEN "peer already is a voter"
       ELSE ""

PromoteLearnerIsFinish(pl, region) ==
    LET p == GetStoreVoter(region, pl.ToStore)
    IN IF p # Nil THEN p.Id = pl.PeerID ELSE FALSE

PromoteLearnerCheckSafety(pl, region) ==
    IF GetStorePeerOf(region, pl.ToStore) = Nil THEN "peer does not exist" ELSE ""

RemovePeerIsFinish(rp, region) == GetStorePeerOf(region, rp.FromStore) = Nil

\* Mutant: removing the leader's peer is let through.
RemovePeerCheckSafety_AllowsLeader(rp, region) == ""

RemovePeerCheckSafety(rp, region) ==
    IF rp.FromStore = region.leader THEN "cannot remove leader peer" ELSE ""

\* OpStep.IsFinish and OpStep.CheckSafety, by the step's type.
IsFinish(step, region) ==
    CASE step.type = "TransferLeader" -> TransferLeaderIsFinish(step, region)
      [] step.type = "AddPeer" -> AddPeerIsFinish(step, region)
      [] step.type = "AddLearner" -> AddLearnerIsFinish(step, region)
      [] step.type = "PromoteLearner" -> PromoteLearnerIsFinish(step, region)
      [] step.type = "RemovePeer" -> RemovePeerIsFinish(step, region)

CheckSafety(step, region) ==
    CASE step.type = "TransferLeader" -> TransferLeaderCheckSafety(step, region)
      [] step.type = "AddPeer" -> AddPeerCheckSafety(step, region)
      [] step.type = "AddLearner" -> AddLearnerCheckSafety(step, region)
      [] step.type = "PromoteLearner" -> PromoteLearnerCheckSafety(step, region)
      [] step.type = "RemovePeer" -> RemovePeerCheckSafety(step, region)

(***************************************************************************)
(* The operator controller.  An operator is                                *)
(*   [id, region, steps, currentStep, status, fin]                         *)
(* where currentStep counts the finished steps and fin records, for each   *)
(* finished step, the heartbeat (its number and its snapshot) on which     *)
(* the step was found finished.  The controller is                         *)
(*   [operators, running, lastSuccess].                                   *)
(***************************************************************************)
\* Mutant: the current step is advanced whether or not it has finished.
Check_AdvancesUnfinished(op, region, at) ==
    LET step == op.steps[op.currentStep + 1]
    IN IF CheckSafety(step, region) # ""
       THEN [op EXCEPT !.status = "CANCELED"]
       ELSE [op EXCEPT !.currentStep = @ + 1,
                       !.fin = Append(@, [at |-> at, region |-> region]),
                       !.status = IF op.currentStep + 1 >= Len(op.steps)
                                  THEN "SUCCESS" ELSE @]

\* Step polling: the current step is checked for safety, then for finish.
Check(op, region, at) ==
    LET step == op.steps[op.currentStep + 1]
    IN IF CheckSafety(step, region) # ""
       THEN [op EXCEPT !.status = "CANCELED"]
       ELSE IF IsFinish(step, region)
            THEN [op EXCEPT !.currentStep = @ + 1,
                            !.fin = Append(@, [at |-> at, region |-> region]),
                            !.status = IF op.currentStep + 1 >= Len(op.steps)
                                       THEN "SUCCESS" ELSE @]
            ELSE op

RemoveOperator(ctl, op) ==
    [ctl EXCEPT !.operators[op.region] = IF @ # Nil /\ @.id = op.id THEN Nil ELSE @,
                !.running = @ \ {<<op.id, op.region>>},
                !.lastSuccess = IF op.status = "SUCCESS" THEN op ELSE @]

\* A heartbeat of region r reaches the controller.
Dispatch(ctl, r, region, at) ==
    IF ctl.operators[r] = Nil THEN ctl
    ELSE LET op == Check(ctl.operators[r], region, at)
         IN IF op.status = "STARTED"
            THEN [ctl EXCEPT !.operators[r] = op]
            ELSE RemoveOperator(ctl, op)

\* The operators of ops put into the controller's map.
PutOperators(ctl, ops) ==
    [ctl EXCEPT !.operators =
                    [r \in OpRegions |->
                        IF \E i \in DOMAIN ops : ops[i].region = r
                        THEN [ops[CHOOSE i \in DOMAIN ops : ops[i].region = r]
                                EXCEPT !.status = "STARTED"]
                        ELSE @[r]],
                !.running = @ \cup {<<ops[i].id, ops[i].region>> : i \in DOMAIN ops}]

\* Mutant: admission does not look at the regions' running operators.
AddWaitingOperator_NoRegionCheck(ctl, ops, allowed) ==
    IF allowed THEN PutOperators(ctl, ops) ELSE ctl

\* allowed: the store budgets and the schedule limits can take the operators.
AddWaitingOperator(ctl, ops, allowed) ==
    IF /\ \A i \in DOMAIN ops : ctl.operators[ops[i].region] = Nil
       /\ allowed
    THEN PutOperators(ctl, ops)
    ELSE ctl

GetOperator(r) == operators[r]

Controller == [operators |-> operators, running |-> running, lastSuccess |-> lastSuccess]

(***************************************************************************)
(* The coordinator's loops.  patrolRegions walks the suspect regions and   *)
(* then the scanned regions; for each it asks GetOperator, then            *)
(* CheckRegion, then AddWaitingOperator, and the other loops run between   *)
(* any two of these calls.  Every runScheduler loop calls Schedule and     *)
(* then AddWaitingOperator.                                                *)
(***************************************************************************)
\* Number of operators the checkers and schedulers create in all.
MaxOps == 2

\* Number of region heartbeats dispatched in all.
MaxOpBeats == 3

NewOperator(id, r, steps) ==
    [id |-> id, region |-> r, steps |-> steps, currentStep |-> 0,
     status |-> "CREATED", fin |-> <<>>]

TransferLeaderStep(from, to) == [type |-> "TransferLeader", FromStore |-> from, ToStore |-> to]

AddPeerStep(to, id) == [type |-> "AddPeer", ToStore |-> to, PeerID |-> id]

AddLearnerStep(to, id) == [type |-> "AddLearner", ToStore |-> to, PeerID |-> id]

PromoteLearnerStep(to, id) == [type |-> "PromoteLearner", ToStore |-> to, PeerID |-> id]

RemovePeerStep(from) == [type |-> "RemovePeer", FromStore |-> from]

\* The checkers move the peer on store 1 to store 3 through a learner; the
\* leader balancer moves the leader to store 2, the region balancer moves the
\* peer on store 1 to store 3 directly.
CheckerSteps ==
    {<<AddLearnerStep(3, 13), PromoteLearnerStep(3, 13), RemovePeerStep(1)>>}

SchedulerSteps(s) ==
    IF s = "balance-leader"
    THEN <<TransferLeaderStep(1, 2)>>
    ELSE <<AddPeerStep(3, 13), RemovePeerStep(1)>>

\* What CheckRegion returns for region r.
CheckRegionOps(r) ==
    {<<>>} \cup
    (IF opsCreated < MaxOps
     THEN {<<NewOperator(opsCreated + 1, r, t)>> : t \in CheckerSteps}
     ELSE {})

\* What a scheduler's Schedule returns: nothing or one operator.
ScheduleOps(s) ==
    {<<>>} \cup
    (IF opsCreated < MaxOps
     THEN {<<NewOperator(opsCreated + 1, r, SchedulerSteps(s))>> : r \in OpRegions}
     ELSE {})

\* The region snapshots heartbeats report: the leader is the voter of store 1
\* or 2, store 2 holds voter 2, store 1 holds voter 1 or nothing, store 3
\* nothing, peer 13 (a learner, pending or not, or a voter) or voter 14.
OpSnapshots ==
    {[leader |-> l, peers |-> <<p1, [Id |-> 2, IsLearner |-> FALSE], p3>>, pending |-> pd] :
        l \in {1, 2},
        p1 \in {Nil, [Id |-> 1, IsLearner |-> FALSE]},
        p3 \in {Nil, [Id |-> 13, IsLearner |-> TRUE], [Id |-> 13, IsLearner |-> FALSE],
                [Id |-> 14, IsLearner |-> FALSE]},
        pd \in {{}, {13}}}

ValidSnapshot(region) ==
    /\ region.peers[region.leader] # Nil
    /\ ~region.peers[region.leader].IsLearner
    /\ \A id \in region.pending : GetStoreLearner(region, 3) # Nil

SuspectLists == {<<>>, <<1>>}

\* The region patrolRegions is at: the first suspect, else the first scanned.
PatrolRegion ==
    IF patrol.suspects # <<>> THEN Head(patrol.suspects) ELSE Head(patrol.regions)

\* patrolRegions moves on to the next region (continue) ...
PatrolContinue ==
    IF patrol.suspects # <<>>
    THEN [patrol EXCEPT !.pc = "scan", !.suspects = Tail(@), !.ops = <<>>]
    ELSE [patrol EXCEPT !.pc = "scan", !.regions = Tail(@), !.ops = <<>>]

\* ... or leaves the loop it is in (break).
PatrolBreak ==
    IF patrol.suspects # <<>>
    THEN [patrol EXCEPT !.pc = "scan", !.suspects = <<>>, !.ops = <<>>]
    ELSE [patrol EXCEPT !.pc = "scan", !.regions = <<>>, !.ops = <<>>]

SetController(ctl) ==
    /\ operators' = ctl.operators
    /\ running' = ctl.running
    /\ lastSuccess' = ctl.lastSuccess

\* The outcome of an AddWaitingOperator call: the operators were admitted, or
\* refused while a region of theirs had an operator, or refused otherwise.
AddOutcome(ops, ctl) ==
    IF \A i \in DOMAIN ops : <<ops[i].id, ops[i].region>> \in ctl.running
    THEN "admitted"
    ELSE IF \E i \in DOMAIN ops : operators[ops[i].region] # Nil
    THEN "refused: region has an operator"
    ELSE "refused"

\* The patrol timer fires: the suspect regions and a batch of regions are read.
PatrolTimer ==
    /\ patrol.pc = "timer"
    /\ \E sus \in SuspectLists :
          patrol' = [pc |-> "scan", suspects |-> sus, regions |-> <<1>>, ops |-> <<>>]
    /\ UNCHANGED <<operators, running, lastSuccess, opBeats, opsCreated, sched, lastAdd>>
    /\ UNCHANGED opOthers

\* "Skips the region if there is already a pending operator."
PatrolGetOperator ==
    /\ patrol.pc = "scan"
    /\ patrol' = IF patrol.suspects = <<>> /\ patrol.regions = <<>>
                 THEN [patrol EXCEPT !.pc = "timer"]
                 ELSE IF GetOperator(PatrolRegion) # Nil
                      THEN PatrolContinue
                      ELSE [patrol EXCEPT !.pc = "check"]
    /\ UNCHANGED <<operators, running, lastSuccess, opBeats, opsCreated, sched, lastAdd>>
    /\ UNCHANGED opOthers

PatrolCheckRegion ==
    /\ patrol.pc = "check"
    /\ \E checkerIsBusy \in BOOLEAN, ops \in CheckRegionOps(PatrolRegion) :
          /\ patrol' = IF checkerIsBusy THEN PatrolBreak
                       ELSE IF Len(ops) > 0 THEN [patrol EXCEPT !.pc = "add", !.ops = ops]
                       ELSE PatrolContinue
          /\ opsCreated' = opsCreated + Len(ops)
    /\ UNCHANGED <<operators, running, lastSuccess, opBeats, sched, lastAdd>>
    /\ UNCHANGED opOthers

PatrolAddWaitingOperator ==
    /\ patrol.pc = "add"
    /\ \E allowed \in BOOLEAN :
          LET ctl == AddWaitingOperator(Controller, patrol.ops, allowed)
          IN /\ SetController(ctl)
             /\ lastAdd' = AddOutcome(patrol.ops, ctl)
    /\ patrol' = PatrolContinue
    /\ UNCHANGED <<opBeats, opsCreated, sched>>
    /\ UNCHANGED opOthers

\* A scheduler's timer fires: AllowSchedule, then Schedule.
SchedulerSchedule(s) ==
    /\ sched[s].pc = "timer"
    /\ \E allow \in BOOLEAN, ops \in ScheduleOps(s) :
          /\ sched' = IF allow /\ Len(ops) > 0
                      THEN [sched EXCEPT ![s] = [pc |-> "add", ops |-> ops]]
                      ELSE sched
          /\ opsCreated' = IF allow THEN opsCreated + Len(ops) ELSE opsCreated
    /\ UNCHANGED <<operators, running, lastSuccess, opBeats, patrol, lastAdd>>
    /\ UNCHANGED opOthers

SchedulerAddWaitingOperator(s) ==
    /\ sched[s].pc = "add"
    /\ \E allowed \in BOOLEAN :
          LET ctl == AddWaitingOperator(Controller, sched[s].ops, allowed)
          IN /\ SetController(ctl)
             /\ lastAdd' = AddOutcome(sched[s].ops, ctl)
    /\ sched' = [sched EXCEPT ![s] = [pc |-> "timer", ops |-> <<>>]]
    /\ UNCHANGED <<opBeats, opsCreated, patrol>>
    /\ UNCHANGED opOthers

\* A heartbeat of a region is dispatched to its operator.
OperatorHeartbeat ==
    /\ opBeats < MaxOpBeats
    /\ \E r \in OpRegions, region \in OpSnapshots :
          /\ ValidSnapshot(region)
          /\ SetController(Dispatch(Controller, r, region, opBeats + 1))
    /\ opBeats' = opBeats + 1
    /\ UNCHANGED <<opsCreated, patrol, sched, lastAdd>>
    /\ UNCHANGED opOthers

\* PushOperators finds a running operator past its deadline and cancels it.
OperatorTimeout ==
    /\ \E r \in OpRegions :
          /\ operators[r] # Nil
          /\ SetController(RemoveOperator(Controller, [operators[r] EXCEPT !.status = "TIMEOUT"]))
    /\ UNCHANGED <<opBeats, opsCreated, patrol, sched, lastAdd>>
    /\ UNCHANGED opOthers

InitOp == OpIdle /\ HotIdle /\ BalIdle /\ RestIdle

NextOp ==
    \/ PatrolTimer
    \/ PatrolGetOperator
    \/ PatrolCheckRegion
    \/ PatrolAddWaitingOperator
    \/ \E s \in Schedulers : SchedulerSchedule(s)
    \/ \E s \in Schedulers : SchedulerAddWaitingOperator(s)
    \/ OperatorHeartbeat
    \/ OperatorTimeout

SpecOp == InitOp /\ [][NextOp]_vars

(***************************************************************************)
(* C1.  At any time each region has at most one active operator: however   *)
(* the patrol loop and the scheduler loops interleave their calls of       *)
(* AddWaitingOperator, an operator is never admitted for a region that     *)
(* already has an operator.  running holds every operator admitted and     *)
(* not yet ended.                                                          *)
(***************************************************************************)
ActiveOperators(r) == {o \in running : o[2] = r}

C1_AtMostOneActive ==
    \A r \in OpRegions :
        /\ Cardinality(ActiveOperators(r)) <= 1
        /\ operators[r] # Nil => ActiveOperators(r) = {<<operators[r].id, r>>}

C1_NeverAdmittedOverAnother ==
    \A o \in running' \ running : ActiveOperators(o[2]) = {} /\ operators[o[2]] = Nil

C1_OneOperatorPerRegion ==
    []C1_AtMostOneActive /\ [][C1_NeverAdmittedOverAnother]_vars

\* An AddWaitingOperator call was refused because another loop's operator
\* took the region first, and that operator is the region's only one.
C1_Witness ==
    /\ lastAdd = "refused: region has an operator"
    /\ \E r \in OpRegions :
          /\ operators[r] # Nil
          /\ operators[r].status = "STARTED"
          /\ ActiveOperators(r) = {<<operators[r].id, r>>}
          /\ opsCreated > operators[r].id

(***************************************************************************)
(* C2.  For every operator that ends in state Success, its steps finished  *)
(* in definition order: each step has a heartbeat snapshot of the region   *)
(* on which that step's IsFinish held, the snapshot of step i is not later *)
(* than the snapshot of step i+1, and no step is skipped.                  *)
(***************************************************************************)
FinishedInOrder(op) ==
    /\ Len(op.fin) = op.currentStep
    /\ \A i \in 1..Len(op.fin) :
          /\ ValidSnapshot(op.fin[i].region)
          /\ IsFinish(op.steps[i], op.fin[i].region)
          /\ op.fin[i].at \in 1..opBeats
    /\ \A i \in 1..(Len(op.fin) - 1) : op.fin[i].at <= op.fin[i + 1].at

C2_StepsFinishInOrder ==
    lastSuccess # Nil =>
        /\ lastSuccess.status = "SUCCESS"
        /\ lastSuccess.currentStep = Len(lastSuccess.steps)
        /\ FinishedInOrder(lastSuccess)

\* An operator of three steps ended in Success, its steps finished on
\* three different snapshots.
C2_Witness ==
    /\ lastSuccess # Nil
    /\ Len(lastSuccess.steps) = 3
    /\ lastSuccess.fin[1].region # lastSuccess.fin[2].region
    /\ lastSuccess.fin[2].region # lastSuccess.fin[3].region

(***************************************************************************)
(* The checker pipeline.  A call of CheckRegion is described by what each  *)
(* checker answers for the region when it is asked (Nil, an operator, or   *)
(* for the merge checker no or two operators), by IsPlacementRulesEnabled, *)
(* by the operator counts and the schedule limits, and by whether there is *)
(* a merge checker.  The result records the operators returned, the        *)
(* checkers asked in the order they were asked, whether the region was put *)
(* on the waiting list and which limit counters were incremented.          *)
(***************************************************************************)
\* The largest operator count and schedule limit enumerated.
MaxOperatorCount == 1

CheckResult(ops, asked, waiting, limited) ==
    [ops |-> ops, asked |-> asked, waiting |-> waiting, limited |-> limited]

\* Mutant: only the first of the merge checker's operators is returned.
CheckRegionMerge_ActiveOnly(c, asked, waiting, limited) ==
    IF c.mergeChecker
    THEN IF ~(c.mergeCount < c.mergeLimit)
         THEN CheckResult(<<>>, asked, waiting, limited \cup {"merge"})
         ELSE IF c.merge # <<>>
              THEN CheckResult(<<c.merge[1]>>, Append(asked, "merge"), waiting, limited)
              ELSE CheckResult(<<>>, Append(asked, "merge"), waiting, limited)
    ELSE CheckResult(<<>>, asked, waiting, limited)

\* Lines 104-115: the merge checker, asked only below the merge limit.
CheckRegionMerge(c, asked, waiting, limited) ==
    IF c.mergeChecker
    THEN IF ~(c.mergeCount < c.mergeLimit)
         THEN CheckResult(<<>>, asked, waiting, limited \cup {"merge"})
         ELSE IF c.merge # <<>>
              THEN CheckResult(c.merge, Append(asked, "merge"), waiting, limited)
              ELSE CheckResult(<<>>, Append(asked, "merge"), waiting, limited)
    ELSE CheckResult(<<>>, asked, waiting, limited)

\* Mutant: an operator of the rule or replica checker is returned whatever
\* the count of replica operators.
CheckRegion_NoReplicaLimit(c) ==
    IF c.jointState # Nil THEN CheckResult(<<c.jointState>>, <<"joint-state">>, FALSE, {})
    ELSE IF c.split # Nil THEN CheckResult(<<c.split>>, <<"joint-state", "split">>, FALSE, {})
    ELSE IF c.placementRules
    THEN IF c.rule # Nil
         THEN CheckResult(<<c.rule>>, <<"joint-state", "split", "rule">>, FALSE, {})
         ELSE CheckRegionMerge(c, <<"joint-state", "split", "rule">>, FALSE, {})
    ELSE IF c.learner # Nil
    THEN CheckResult(<<c.learner>>, <<"joint-state", "split", "learner">>, FALSE, {})
    ELSE IF c.replica # Nil
         THEN CheckResult(<<c.replica>>, <<"joint-state", "split", "learner", "replica">>, FALSE, {})
         ELSE CheckRegionMerge(c, <<"joint-state", "split", "learner", "replica">>, FALSE, {})

CheckRegion(c) ==
    IF c.jointState # Nil THEN CheckResult(<<c.jointState>>, <<"joint-state">>, FALSE, {})
    ELSE IF c.split # Nil THEN CheckResult(<<c.split>>, <<"joint-state", "split">>, FALSE, {})
    ELSE IF c.placementRules
    THEN IF c.rule # Nil
         THEN IF c.replicaCount < c.replicaLimit
              THEN CheckResult(<<c.rule>>, <<"joint-state", "split", "rule">>, FALSE, {})
              ELSE CheckRegionMerge(c, <<"joint-state", "split", "rule">>, TRUE, {"rule"})
         ELSE CheckRegionMerge(c, <<"joint-state", "split", "rule">>, FALSE, {})
    ELSE IF c.learner # Nil
    THEN CheckResult(<<c.learner>>, <<"joint-state", "split", "learner">>, FALSE, {})
    ELSE IF c.replica # Nil
         THEN IF c.replicaCount < c.replicaLimit
              THEN CheckResult(<<c.replica>>,
                               <<"joint-state", "split", "learner", "replica">>, FALSE, {})
              ELSE CheckRegionMerge(c, <<"joint-state", "split", "learner", "replica">>,
                                    TRUE, {"replica"})
         ELSE CheckRegionMerge(c, <<"joint-state", "split", "learner", "replica">>, FALSE, {})

\* The calls enumerated.
CheckRegionCalls ==
    [jointState : {Nil, [desc |-> "leave-joint"]},
     split : {Nil, [desc |-> "split-region"]},
     rule : {Nil, [desc |-> "fix-rule"]},
     learner : {Nil, [desc |-> "promote-learner"]},
     replica : {Nil, [desc |-> "fix-replica"]},
     merge : {<<>>, <<[desc |-> "merge-active"], [desc |-> "merge-passive"]>>},
     placementRules : BOOLEAN,
     replicaCount : 0..MaxOperatorCount, replicaLimit : 0..MaxOperatorCount,
     mergeCount : 0..MaxOperatorCount, mergeLimit : 0..MaxOperatorCount,
     mergeChecker : BOOLEAN]

InitChecker ==
    /\ chkIn \in CheckRegionCalls
    /\ chkOut = Nil
    /\ HotIdle /\ BalIdle /\ OpIdle /\ chkRestIdle

CallCheckRegion ==
    /\ chkOut = Nil
    /\ chkOut' = CheckRegion(chkIn)
    /\ UNCHANGED chkIn
    /\ UNCHANGED chkOthers

NextChecker == CallCheckRegion

SpecChecker == InitChecker /\ [][NextChecker]_vars

(***************************************************************************)
(* C11.  CheckRegion returns the operators of the first checker that       *)
(* produces any, in the order joint-state, split, rule (or learner then    *)
(* replica when placement rules are disabled), merge; once an earlier      *)
(* checker has produced an operator for the region, no later checker's     *)
(* operators are returned for that call.                                   *)
(*                                                                         *)
(* As stated this fails: an operator of the rule checker (or the replica   *)
(* checker) produced while the count of replica operators has reached the  *)
(* replica schedule limit is dropped, and the merge checker's operators    *)
(* may be returned by the same call.  What holds is the statement over     *)
(* the operators a checker may return.                                     *)
(***************************************************************************)
PipelineOrder(c) ==
    IF c.placementRules
    THEN <<"joint-state", "split", "rule", "merge">>
    ELSE <<"joint-state", "split", "learner", "replica", "merge">>

\* The operators a checker produces for the region (the merge checker
\* produces none when it is absent or not asked).
Produced(c, checker) ==
    CASE checker = "joint-state" -> IF c.jointState = Nil THEN <<>> ELSE <<c.jointState>>
      [] checker = "split" -> IF c.split = Nil THEN <<>> ELSE <<c.split>>
      [] checker = "rule" -> IF c.rule = Nil THEN <<>> ELSE <<c.rule>>
      [] checker = "learner" -> IF c.learner = Nil THEN <<>> ELSE <<c.learner>>
      [] checker = "replica" -> IF c.replica = Nil THEN <<>> ELSE <<c.replica>>
      [] checker = "merge" -> IF c.mergeChecker /\ c.mergeCount < c.mergeLimit
                              THEN c.merge ELSE <<>>

\* The operators a checker produces and may return: those of the rule and
\* replica checkers only below the replica schedule limit.
Returnable(c, checker) ==
    IF checker \in {"rule", "replica"} /\ ~(c.replicaCount < c.replicaLimit)
    THEN <<>>
    ELSE Produced(c, checker)

FirstOf(c, Offer(_, _)) ==
    LET order == PipelineOrder(c)
        hits == {i \in DOMAIN order : Offer(c, order[i]) # <<>>}
    IN IF hits = {} THEN <<>>
       ELSE Offer(c, order[CHOOSE i \in hits : \A j \in hits : i <= j])

C11_Original ==
    chkOut # Nil => chkOut.ops = FirstOf(chkIn, Produced)

C11_FirstReturnableWins ==
    chkOut # Nil =>
        /\ chkOut.ops = FirstOf(chkIn, Returnable)
        /\ \E n \in 1..Len(PipelineOrder(chkIn)) :
              chkOut.asked = SubSeq(PipelineOrder(chkIn), 1, n)
        /\ chkOut.ops # <<>> =>
              chkOut.ops = Produced(chkIn, chkOut.asked[Len(chkOut.asked)])
        /\ chkOut.waiting =
              \E ch \in {"rule", "replica"} :
                  /\ \E i \in DOMAIN chkOut.asked : chkOut.asked[i] = ch
                  /\ Produced(chkIn, ch) # <<>>
                  /\ Returnable(chkIn, ch) = <<>>

\* The rule checker produced an operator over the replica limit: the region
\* went on the waiting list and the merge checker's operators were returned.
C11_Witness ==
    /\ chkOut # Nil
    /\ chkIn.placementRules
    /\ chkIn.rule # Nil
    /\ chkOut.waiting
    /\ chkOut.ops = chkIn.merge
    /\ chkOut.ops # <<>>

(***************************************************************************)
(* The rule checker.  A peer is [Id, StoreId]; a region carries the ids of *)
(* its pending peers and of its down peers; a RegionFit is                 *)
(*   [RuleFits |-> sequence of [Peers, IsSatisfied], OrphanPeers |-> seq]. *)
(* CreateRemovePeerOperator is kept as the store it removes the peer from. *)
(***************************************************************************)
\* Number of peers of the region.
MaxPeers == 3

Peer(i) == [Id |-> i, StoreId |-> 10 * i]

\* The closure isUnhealthyPeer of fixOrphanPeers.
isUnhealthyPeer(region, id) == id \in region.PendingPeers \/ id \in region.DownPeers

\* The loop loopFits.
hasUnhealthyFit(region, fit) ==
    \E i \in DOMAIN fit.RuleFits :
        \/ ~fit.RuleFits[i].IsSatisfied
        \/ \E j \in DOMAIN fit.RuleFits[i].Peers :
              isUnhealthyPeer(region, fit.RuleFits[i].Peers[j].Id)

CreateRemovePeerOperator(storeID) == [desc |-> "remove-orphan-peer", removeStore |-> storeID]

\* Mutant: an unhealthy orphan is removed however many orphans there are.
fixOrphanPeers_AnyCount(region, fit) ==
    IF Len(fit.OrphanPeers) = 0 THEN Nil
    ELSE IF ~hasUnhealthyFit(region, fit)
    THEN CreateRemovePeerOperator(fit.OrphanPeers[1].StoreId)
    ELSE LET unhealthy == {i \in DOMAIN fit.OrphanPeers :
                              isUnhealthyPeer(region, fit.OrphanPeers[i].Id)}
         IN IF unhealthy # {}
            THEN CreateRemovePeerOperator(
                     fit.OrphanPeers[CHOOSE i \in unhealthy : \A j \in unhealthy : i <= j].StoreId)
            ELSE Nil

fixOrphanPeers(region, fit) ==
    IF Len(fit.OrphanPeers) = 0 THEN Nil
    ELSE IF ~hasUnhealthyFit(region, fit)
    THEN CreateRemovePeerOperator(fit.OrphanPeers[1].StoreId)
    ELSE LET unhealthy == {i \in DOMAIN fit.OrphanPeers :
                              isUnhealthyPeer(region, fit.OrphanPeers[i].Id)}
         IN IF Len(fit.OrphanPeers) >= 2 /\ unhealthy # {}
            THEN CreateRemovePeerOperator(
                     fit.OrphanPeers[CHOOSE i \in unhealthy : \A j \in unhealthy : i <= j].StoreId)
            ELSE Nil

\* The peers of ids, as a sequence in rising or falling order of id.
RECURSIVE PeersRising(_)
PeersRising(ids) ==
    IF ids = {} THEN <<>>
    ELSE LET m == CHOOSE i \in ids : \A j \in ids : i <= j
         IN <<Peer(m)>> \o PeersRising(ids \ {m})

RECURSIVE PeersFalling(_)
PeersFalling(ids) ==
    IF ids = {} THEN <<>>
    ELSE LET m == CHOOSE i \in ids : \A j \in ids : i >= j
         IN <<Peer(m)>> \o PeersFalling(ids \ {m})

\* The fits enumerated: every peer is selected by the first rule, by the
\* second rule or by none (an orphan).
RegionFits ==
    {[RuleFits |-> <<[Peers |-> PeersRising({i \in 1..MaxPeers : a[i] = 1}), IsSatisfied |-> s1],
                     [Peers |-> PeersRising({i \in 1..MaxPeers : a[i] = 2}), IsSatisfied |-> s2]>>,
      OrphanPeers |-> IF rising THEN PeersRising({i \in 1..MaxPeers : a[i] = 0})
                      ELSE PeersFalling({i \in 1..MaxPeers : a[i] = 0})] :
        a \in [1..MaxPeers -> 0..2], s1 \in BOOLEAN, s2 \in BOOLEAN, rising \in BOOLEAN}

RuleRegions ==
    [PendingPeers : SUBSET (1..MaxPeers), DownPeers : SUBSET (1..MaxPeers)]

FixOrphanPeersCalls == [fn : {"fixOrphanPeers"}, region : RuleRegions, fit : RegionFits]

(***************************************************************************)
(* isDownPeer and isOfflinePeer.  A store is [DownTime, State]; the        *)
(* cluster maps a store id to its store, or to Nil when the store is lost. *)
(* region.GetDownPeers() is a list of [Peer, DownSeconds].                 *)
(***************************************************************************)
MaxDownTime == 2

StoreStates == {"Up", "Offline", "Tombstone"}

\* StoreInfo.IsUp.
IsUp(store) == store.State = "Up"

\* StoreInfo.DownTime.
DownTime(store) == store.DownTime

\* cluster.GetStore.
GetStore(cluster, storeID) == cluster.stores[storeID]

RECURSIVE isDownPeerFrom(_, _, _, _)
\* The loop of isDownPeer from position k of the down-peer list.
isDownPeerFrom(cluster, region, peer, k) ==
    IF k > Len(region.DownPeers) THEN FALSE
    ELSE IF region.DownPeers[k].Peer.Id # peer.Id
    THEN isDownPeerFrom(cluster, region, peer, k + 1)
    ELSE LET store == GetStore(cluster, peer.StoreId) IN
         IF store = Nil THEN FALSE
         ELSE IF DownTime(store) < cluster.maxStoreDownTime
         THEN isDownPeerFrom(cluster, region, peer, k + 1)
         ELSE TRUE

\* Mutant: the seconds reported with the down peer decide, not the store.
isDownPeer_DownSeconds(cluster, region, peer) ==
    \E k \in 1..Len(region.DownPeers) :
        /\ region.DownPeers[k].Peer.Id = peer.Id
        /\ GetStore(cluster, peer.StoreId) # Nil
        /\ region.DownPeers[k].DownSeconds >= cluster.maxStoreDownTime

isDownPeer(cluster, region, peer) == isDownPeerFrom(cluster, region, peer, 1)

isOfflinePeer(cluster, region, peer) ==
    LET store == GetStore(cluster, peer.StoreId) IN
    IF store = Nil THEN FALSE ELSE ~IsUp(store)

PeerIDs == {1, 2}

RuleStores == {Nil} \cup [DownTime : 0..MaxDownTime, State : StoreStates]

RuleClusters ==
    [stores : [{Peer(i).StoreId : i \in PeerIDs} -> RuleStores],
     maxStoreDownTime : 0..MaxDownTime]

PeerStats == [Peer : {Peer(i) : i \in PeerIDs}, DownSeconds : {0, MaxDownTime}]

DownPeerLists == {<<>>} \cup {<<a>> : a \in PeerStats} \cup {<<a, b>> : a, b \in PeerStats}

PeerCalls ==
    [fn : {"isDownPeer", "isOfflinePeer"}, cluster : RuleClusters,
     region : [DownPeers : DownPeerLists], peer : {Peer(i) : i \in PeerIDs}]

RuleCalls == FixOrphanPeersCalls \cup PeerCalls

InitRule ==
    /\ ruleIn \in RuleCalls
    /\ ruleOut = Nil
    /\ HotIdle /\ BalIdle /\ OpIdle /\ ruleRestIdle

FixOrphanPeers ==
    /\ ruleOut = Nil
    /\ ruleIn.fn = "fixOrphanPeers"
    /\ ruleOut' = [op |-> fixOrphanPeers(ruleIn.region, ruleIn.fit)]
    /\ UNCHANGED ruleIn
    /\ UNCHANGED ruleOthers

IsDownPeer ==
    /\ ruleOut = Nil
    /\ ruleIn.fn = "isDownPeer"
    /\ ruleOut' = [is |-> isDownPeer(ruleIn.cluster, ruleIn.region, ruleIn.peer)]
    /\ UNCHANGED ruleIn
    /\ UNCHANGED ruleOthers

IsOfflinePeer ==
    /\ ruleOut = Nil
    /\ ruleIn.fn = "isOfflinePeer"
    /\ ruleOut' = [is |-> isOfflinePeer(ruleIn.cluster, ruleIn.region, ruleIn.peer)]
    /\ UNCHANGED ruleIn
    /\ UNCHANGED ruleOthers

NextRule ==
    \/ FixOrphanPeers
    \/ IsDownPeer
    \/ IsOfflinePeer

SpecRule == InitRule /\ [][NextRule]_vars

(***************************************************************************)
(* C12.  fixOrphanPeers removes one orphan peer when every RuleFit is      *)
(* satisfied and no RuleFit peer is pending or down; otherwise it removes  *)
(* only an orphan that is itself pending or down, and only when the region *)
(* has at least 2 orphan peers; in every other case it returns no          *)
(* operator.                                                               *)
(***************************************************************************)
C12Called == ruleOut # Nil /\ ruleIn.fn = "fixOrphanPeers"

C12FitPeers ==
    UNION {{ruleIn.fit.RuleFits[i].Peers[j] : j \in DOMAIN ruleIn.fit.RuleFits[i].Peers} :
              i \in DOMAIN ruleIn.fit.RuleFits}

C12Orphans == {ruleIn.fit.OrphanPeers[i] : i \in DOMAIN ruleIn.fit.OrphanPeers}

C12PendingOrDown(p) == p.Id \in ruleIn.region.PendingPeers \cup ruleIn.region.DownPeers

C12AllFitsHealthy ==
    /\ \A i \in DOMAIN ruleIn.fit.RuleFits : ruleIn.fit.RuleFits[i].IsSatisfied
    /\ \A p \in C12FitPeers : ~C12PendingOrDown(p)

C12Removed == {p \in C12Orphans : ruleOut.op # Nil /\ p.StoreId = ruleOut.op.removeStore}

C12_FixOrphanPeers ==
    C12Called =>
        /\ ruleOut.op # Nil => Cardinality(C12Removed) = 1
        /\ IF C12Orphans = {} THEN ruleOut.op = Nil
           ELSE IF C12AllFitsHealthy THEN ruleOut.op # Nil
           ELSE IF Cardinality(C12Orphans) >= 2 /\ \E p \in C12Orphans : C12PendingOrDown(p)
                THEN ruleOut.op # Nil /\ \A p \in C12Removed : C12PendingOrDown(p)
                ELSE ruleOut.op = Nil

\* A RuleFit peer is pending or down and, of two orphans, the one removed is
\* the unhealthy one, which is not the first of the list.
C12_Witness ==
    /\ C12Called
    /\ ~C12AllFitsHealthy
    /\ Len(ruleIn.fit.OrphanPeers) = 2
    /\ ~C12PendingOrDown(ruleIn.fit.OrphanPeers[1])
    /\ ruleOut.op # Nil
    /\ ruleOut.op.removeStore = ruleIn.fit.OrphanPeers[2].StoreId

(***************************************************************************)
(* Step descriptions.  A string is the sequence of its characters;         *)
(* Sprintf writes the format's text and, for %v of an unsigned integer,    *)
(* its decimal digits.                                                     *)
(***************************************************************************)
\* The decimal digits of n, as %v prints an unsigned integer.
RECURSIVE FormatUint(_)
FormatUint(n) ==
    LET digit == <<"0", "1", "2", "3", "4", "5", "6", "7", "8", "9">>
    IN IF n < 10 THEN <<digit[n + 1]>>
       ELSE FormatUint(n \div 10) \o <<digit[(n % 10) + 1]>>

\* "transfer leader from store "
TransferLeaderFrom ==
    <<"t", "r", "a", "n", "s", "f", "e", "r", " ", "l", "e", "a", "d", "e",
      "r", " ", "f", "r", "o", "m", " ", "s", "t", "o", "r", "e", " ">>

\* " to store "
ToStoreText ==
    <<" ", "t", "o", " ", "s", "t", "o", "r", "e", " ">>

\* "add peer "
AddPeerText ==
    <<"a", "d", "d", " ", "p", "e", "e", "r", " ">>

\* " on store "
OnStoreText ==
    <<" ", "o", "n", " ", "s", "t", "o", "r", "e", " ">>

\* "add learner peer "
AddLearnerText ==
    <<"a", "d", "d", " ", "l", "e", "a", "r", "n", "e", "r", " ", "p", "e",
      "e", "r", " ">>

\* "promote learner peer "
PromoteLearnerText ==
    <<"p", "r", "o", "m", "o", "t", "e", " ", "l", "e", "a", "r", "n", "e",
      "r", " ", "p", "e", "e", "r", " ">>

\* " to voter"
ToVoterText ==
    <<" ", "t", "o", " ", "v", "o", "t", "e", "r">>

\* "remove peer on store "
RemovePeerText ==
    <<"r", "e", "m", "o", "v", "e", " ", "p", "e", "e", "r", " ", "o", "n",
      " ", "s", "t", "o", "r", "e", " ">>

\* "merge region "
MergeRegionText ==
    <<"m", "e", "r", "g", "e", " ", "r", "e", "g", "i", "o", "n", " ">>

\* " into region "
IntoRegionText ==
    <<" ", "i", "n", "t", "o", " ", "r", "e", "g", "i", "o", "n", " ">>

\* "split region with policy "
SplitRegionText ==
    <<"s", "p", "l", "i", "t", " ", "r", "e", "g", "i", "o", "n", " ", "w",
      "i", "t", "h", " ", "p", "o", "l", "i", "c", "y", " ">>

\* pdpb.CheckPolicy.String: the name of the policy.
CheckPolicyString(policy) ==
    CASE policy = "SCAN" -> <<"S", "C", "A", "N">>
      [] policy = "APPROXIMATE" -> <<"A", "P", "P", "R", "O", "X", "I", "M", "A", "T", "E">>
      [] policy = "USEKEY" -> <<"U", "S", "E", "K", "E", "Y">>

MergeRegionStep(from, to, passive) ==
    [type |-> "MergeRegion", FromRegion |-> [Id |-> from], ToRegion |-> [Id |-> to],
     IsPassive |-> passive]

SplitRegionStep(policy, keys) ==
    [type |-> "SplitRegion", Policy |-> policy, SplitKeys |-> keys]

AddLightPeerStep(to, id) == [type |-> "AddLightPeer", ToStore |-> to, PeerID |-> id]

AddLightLearnerStep(to, id) == [type |-> "AddLightLearner", ToStore |-> to, PeerID |-> id]

TransferLeaderString(tl) ==
    TransferLeaderFrom \o FormatUint(tl.FromStore) \o ToStoreText \o FormatUint(tl.ToStore)

AddPeerString(ap) ==
    AddPeerText \o FormatUint(ap.PeerID) \o OnStoreText \o FormatUint(ap.ToStore)

AddLearnerString(al) ==
    AddLearnerText \o FormatUint(al.PeerID) \o OnStoreText \o FormatUint(al.ToStore)

PromoteLearnerString(pl) ==
    PromoteLearnerText \o FormatUint(pl.PeerID) \o OnStoreText \o FormatUint(pl.ToStore)
        \o ToVoterText

RemovePeerString(rp) == RemovePeerText \o FormatUint(rp.FromStore)

MergeRegionString(mr) ==
    MergeRegionText \o FormatUint(mr.FromRegion.Id) \o IntoRegionText
        \o FormatUint(mr.ToRegion.Id)

SplitRegionString(sr) == SplitRegionText \o CheckPolicyString(sr.Policy)

\* Mutant: the store is printed where the peer belongs.
AddLightPeerString_Swapped(ap) ==
    AddPeerText \o FormatUint(ap.ToStore) \o OnStoreText \o FormatUint(ap.PeerID)

AddLightPeerString(ap) ==
    AddPeerText \o FormatUint(ap.PeerID) \o OnStoreText \o FormatUint(ap.ToStore)

AddLightLearnerString(al) ==
    AddLearnerText \o FormatUint(al.PeerID) \o OnStoreText \o FormatUint(al.ToStore)

\* OpStep.String, by the step's type.
String(step) ==
    CASE step.type = "TransferLeader" -> TransferLeaderString(step)
      [] step.type = "AddPeer" -> AddPeerString(step)
      [] step.type = "AddLearner" -> AddLearnerString(step)
      [] step.type = "PromoteLearner" -> PromoteLearnerString(step)
      [] step.type = "RemovePeer" -> RemovePeerString(step)
      [] step.type = "MergeRegion" -> MergeRegionString(step)
      [] step.type = "SplitRegion" -> SplitRegionString(step)
      [] step.type = "AddLightPeer" -> AddLightPeerString(step)
      [] step.type = "AddLightLearner" -> AddLightLearnerString(step)

\* The store, peer and region ids enumerated: of one digit and of two, one
\* of them the two others written side by side.
StepIDs == {1, 2, 12}

\* The steps enumerated.
OpSteps ==
    {TransferLeaderStep(a, b) : a \in StepIDs, b \in StepIDs}
    \cup {AddPeerStep(a, b) : a \in StepIDs, b \in StepIDs}
    \cup {AddLearnerStep(a, b) : a \in StepIDs, b \in StepIDs}
    \cup {PromoteLearnerStep(a, b) : a \in StepIDs, b \in StepIDs}
    \cup {RemovePeerStep(a) : a \in StepIDs}
    \cup {MergeRegionStep(a, b, p) : a \in StepIDs, b \in StepIDs, p \in BOOLEAN}
    \cup {SplitRegionStep(p, k) : p \in {"SCAN", "APPROXIMATE", "USEKEY"},
                                 k \in {<<>>, <<"k1">>, <<"k1", "k2">>}}
    \cup {AddLightPeerStep(a, b) : a \in StepIDs, b \in StepIDs}
    \cup {AddLightLearnerStep(a, b) : a \in StepIDs, b \in StepIDs}

InitString ==
    /\ strIn \in OpSteps \X OpSteps
    /\ strOut = Nil
    /\ HotIdle /\ BalIdle /\ OpIdle /\ strRestIdle

CallString ==
    /\ strOut = Nil
    /\ strOut' = <<String(strIn[1]), String(strIn[2])>>
    /\ UNCHANGED strIn
    /\ UNCHANGED strOthers

NextString == CallString

SpecString == InitString /\ [][NextString]_vars

(***************************************************************************)
(* C13.  OpStep.String is stable and uniquely identifying: the same step   *)
(* always yields the same string, and two steps that differ in variant or  *)
(* in any field yield different strings.                                   *)
(*                                                                         *)
(* As stated this fails: AddLightPeer prints as AddPeer and                *)
(* AddLightLearner as AddLearner, MergeRegion prints the two region ids    *)
(* only and SplitRegion the policy only.  What holds is that two steps     *)
(* yield the same string exactly when they agree on what String shows.     *)
(***************************************************************************)
C13_Original ==
    strOut # Nil => (strOut[1] = strOut[2] <=> strIn[1] = strIn[2])

\* What the string of a step shows of it.
C13Shown(step) ==
    CASE step.type \in {"AddPeer", "AddLightPeer"} -> <<"AddPeer", step.PeerID, step.ToStore>>
      [] step.type \in {"AddLearner", "AddLightLearner"} ->
            <<"AddLearner", step.PeerID, step.ToStore>>
      [] step.type = "PromoteLearner" -> <<"PromoteLearner", step.PeerID, step.ToStore>>
      [] step.type = "TransferLeader" -> <<"TransferLeader", step.FromStore, step.ToStore>>
      [] step.type = "RemovePeer" -> <<"RemovePeer", step.FromStore>>
      [] step.type = "MergeRegion" -> <<"MergeRegion", step.FromRegion.Id, step.ToRegion.Id>>
      [] step.type = "SplitRegion" -> <<"SplitRegion", step.Policy>>

C13_StableAndShows ==
    strOut # Nil =>
        /\ strIn[1] = strIn[2] => strOut[1] = strOut[2]
        /\ strOut[1] = strOut[2] <=> C13Shown(strIn[1]) = C13Shown(strIn[2])

\* An AddPeer and an AddLightPeer of the same peer and store: two steps,
\* one string.
C13_Witness ==
    /\ strOut # Nil
    /\ strIn[1].type = "AddPeer"
    /\ strIn[2].type = "AddLightPeer"
    /\ strIn[1].PeerID = 12 /\ strIn[2].PeerID = 12
    /\ strIn[1].ToStore = strIn[2].ToStore
    /\ strOut[1] = strOut[2]
    /\ strOut[1] = AddPeerText \o <<"1", "2">> \o OnStoreText \o FormatUint(strIn[1].ToStore)

(***************************************************************************)
(* The retry quota of a scheduler.  limits is a function from the ids of   *)
(* the stores it holds an entry for to their limits.                       *)
(***************************************************************************)
defaultMinRetryLimit == 1

defaultRetryQuotaAttenuation == 2

\* The largest initialLimit enumerated.
MaxInitialLimit == 8

\* The most Attenuate calls counted for a store between two resets.
MaxAttenuate == 4

QuotaStores == {1, 2}

newRetryQuota(initialLimit, minLimit, attenuation) ==
    [initialLimit |-> initialLimit, minLimit |-> minLimit, attenuation |-> attenuation,
     limits |-> <<>>]

\* The map q.limits with q.limits[id] = limit.
SetLimit(q, id, limit) ==
    [q EXCEPT !.limits = [s \in DOMAIN q.limits \cup {id} |->
                             IF s = id THEN limit ELSE q.limits[s]]]

\* GetLimit: the retryQuota it leaves, and the limit it returns.
GetLimitQuota(q, id) == IF id \in DOMAIN q.limits THEN q ELSE SetLimit(q, id, q.initialLimit)

GetLimit(q, id) == IF id \in DOMAIN q.limits THEN q.limits[id] ELSE q.initialLimit

ResetLimit(q, id) == SetLimit(q, id, q.initialLimit)

\* Mutant: the new limit is not floored at minLimit.
Attenuate_NoFloor(q, id) ==
    SetLimit(GetLimitQuota(q, id), id, GetLimit(q, id) \div q.attenuation)

Attenuate(q, id) ==
    LET newLimit == GetLimit(q, id) \div q.attenuation
    IN SetLimit(GetLimitQuota(q, id), id,
                IF newLimit < q.minLimit THEN q.minLimit ELSE newLimit)

GC(q, keepStores) ==
    [q EXCEPT !.limits = [s \in DOMAIN q.limits \cap keepStores |-> q.limits[s]]]

InitQuota ==
    /\ \E minLimit \in defaultMinRetryLimit..(defaultMinRetryLimit + 1),
          attenuation \in defaultRetryQuotaAttenuation..(defaultRetryQuotaAttenuation + 1) :
          \E initialLimit \in minLimit..MaxInitialLimit :
              quota = newRetryQuota(initialLimit, minLimit, attenuation)
    /\ attenuations = [s \in QuotaStores |-> 0]
    /\ quotaCall = Nil
    /\ HotIdle /\ BalIdle /\ OpIdle /\ quotaRestIdle

QuotaGetLimit(id) ==
    /\ quota' = GetLimitQuota(quota, id)
    /\ quotaCall' = [fn |-> "GetLimit", store |-> id, limit |-> GetLimit(quota, id)]
    /\ UNCHANGED attenuations
    /\ UNCHANGED quotaOthers

QuotaResetLimit(id) ==
    /\ quota' = ResetLimit(quota, id)
    /\ quotaCall' = [fn |-> "ResetLimit", store |-> id]
    /\ attenuations' = [attenuations EXCEPT ![id] = 0]
    /\ UNCHANGED quotaOthers

QuotaAttenuate(id) ==
    /\ attenuations[id] < MaxAttenuate
    /\ quota' = Attenuate(quota, id)
    /\ quotaCall' = [fn |-> "Attenuate", store |-> id]
    /\ attenuations' = [attenuations EXCEPT ![id] = @ + 1]
    /\ UNCHANGED quotaOthers

QuotaGC(keepStores) ==
    /\ quota' = GC(quota, keepStores)
    /\ quotaCall' = [fn |-> "GC", keep |-> keepStores]
    /\ attenuations' = [s \in QuotaStores |->
                           IF s \in DOMAIN quota.limits /\ s \notin keepStores
                           THEN 0 ELSE attenuations[s]]
    /\ UNCHANGED quotaOthers

NextQuota ==
    \/ \E id \in QuotaStores : QuotaGetLimit(id)
    \/ \E id \in QuotaStores : QuotaResetLimit(id)
    \/ \E id \in QuotaStores : QuotaAttenuate(id)
    \/ \E keepStores \in SUBSET QuotaStores : QuotaGC(keepStores)

SpecQuota == InitQuota /\ [][NextQuota]_vars

(***************************************************************************)
(* C14.  After any sequence of GetLimit, Attenuate, ResetLimit and GC on a *)
(* retryQuota with minLimit <= initialLimit, a store's limit equals        *)
(* max(minLimit, initialLimit / attenuation^k), where k is the number of   *)
(* Attenuate calls for that store since its last ResetLimit, its last      *)
(* removal by GC, or its first use; GC removes exactly the stores not in   *)
(* the keep list.                                                          *)
(***************************************************************************)
C14Expected(s) ==
    Max(quota.minLimit, quota.initialLimit \div (quota.attenuation ^ attenuations[s]))

C14_LimitIsAttenuated ==
    /\ \A s \in QuotaStores :
          /\ s \in DOMAIN quota.limits => quota.limits[s] = C14Expected(s)
          /\ s \notin DOMAIN quota.limits => attenuations[s] = 0
    /\ quotaCall # Nil /\ quotaCall.fn = "GetLimit" =>
          /\ quotaCall.limit = C14Expected(quotaCall.store)
          /\ quotaCall.store \in DOMAIN quota.limits

C14_GCRemovesExactly ==
    quotaCall' # Nil /\ quotaCall'.fn = "GC" =>
        /\ DOMAIN quota'.limits = DOMAIN quota.limits \cap quotaCall'.keep
        /\ \A s \in DOMAIN quota'.limits : quota'.limits[s] = quota.limits[s]

C14_RetryQuota == []C14_LimitIsAttenuated /\ [][C14_GCRemovesExactly]_vars

\* A store was attenuated three times or more and sits at the floor, above
\* what the division alone gives; a store without an entry is given
\* initialLimit.
C14_Witness ==
    /\ quotaCall # Nil /\ quotaCall.fn = "GetLimit"
    /\ quotaCall.store = 2 /\ quotaCall.limit = quota.initialLimit
    /\ 1 \in DOMAIN quota.limits
    /\ attenuations[1] >= 3
    /\ quota.limits[1] = quota.minLimit
    /\ quota.initialLimit \div (quota.attenuation ^ attenuations[1]) < quota.minLimit
    /\ quota.initialLimit > quota.attenuation * quota.minLimit

(***************************************************************************)
(* One scheduler loop.  runScheduler waits for its timer, asks             *)
(* AllowSchedule and calls Schedule, which asks the underlying scheduler   *)
(* up to maxScheduleRetries times.  An answer of the scheduler is a slice: *)
(* nil, or not nil with its operators.  Intervals are counted in units of  *)
(* the scheduler's minimal interval.                                       *)
(***************************************************************************)
maxScheduleRetries == 10

\* The cap of the scheduler's interval.
MaxScheduleInterval == 8

GetMinInterval == 1

\* The interval grows geometrically up to its cap.
GetNextInterval(interval) ==
    IF 2 * interval > MaxScheduleInterval THEN MaxScheduleInterval ELSE 2 * interval

NilSlice == [isNil |-> TRUE, ops |-> <<>>]

Slice(ops) == [isNil |-> FALSE, ops |-> ops]

\* The answers of the underlying scheduler: nil, an empty slice, an operator.
ScheduleAnswers == {NilSlice, Slice(<<>>), Slice(<<[desc |-> "balance-region"]>>)}

newScheduleController == [pc |-> "timer", i |-> 0, nextInterval |-> GetMinInterval,
                          ret |-> NilSlice, timer |-> GetMinInterval]

\* Schedule sees the context done: it returns nil.
ScheduleStopped(s) == [s EXCEPT !.pc = "returned", !.ret = NilSlice]

\* Mutant: an answer that is not nil is returned with the interval left as
\* it was.
ScheduleAttempt_KeepsInterval(s, answer) ==
    IF ~answer.isNil
    THEN [s EXCEPT !.pc = "returned", !.ret = answer]
    ELSE [s EXCEPT !.i = @ + 1]

\* One passage through the loop of Schedule with the context not done.
ScheduleAttempt(s, answer) ==
    IF ~answer.isNil
    THEN [s EXCEPT !.pc = "returned", !.ret = answer, !.nextInterval = GetMinInterval]
    ELSE [s EXCEPT !.i = @ + 1]

\* The loop of Schedule has run out.
ScheduleExhausted(s) ==
    [s EXCEPT !.pc = "returned", !.ret = NilSlice,
              !.nextInterval = GetNextInterval(s.nextInterval)]

InitSchedule ==
    /\ scLoop = newScheduleController
    /\ scCtx = FALSE
    /\ scCall = Nil
    /\ HotIdle /\ BalIdle /\ OpIdle /\ scRestIdle

\* The timer fires: it is reset to GetInterval and, if AllowSchedule says
\* so, Schedule is entered.
ScTimer ==
    /\ scLoop.pc = "timer"
    /\ \E allow \in BOOLEAN :
          /\ scLoop' = [scLoop EXCEPT !.timer = scLoop.nextInterval,
                                      !.pc = IF allow THEN "schedule" ELSE "timer",
                                      !.i = 0, !.ret = NilSlice]
          /\ scCall' = IF allow THEN [before |-> scLoop.nextInterval, answers |-> <<>>]
                       ELSE Nil
    /\ UNCHANGED scCtx
    /\ UNCHANGED scOthers

\* The loop sees its context done and returns.
ScDone ==
    /\ scLoop.pc = "timer"
    /\ scCtx
    /\ scLoop' = [scLoop EXCEPT !.pc = "stopped"]
    /\ UNCHANGED <<scCtx, scCall>>
    /\ UNCHANGED scOthers

ScScheduleStopped ==
    /\ scLoop.pc = "schedule"
    /\ scLoop.i < maxScheduleRetries
    /\ scCtx
    /\ scLoop' = ScheduleStopped(scLoop)
    /\ UNCHANGED <<scCtx, scCall>>
    /\ UNCHANGED scOthers

ScScheduleAttempt ==
    /\ scLoop.pc = "schedule"
    /\ scLoop.i < maxScheduleRetries
    /\ ~scCtx
    /\ \E answer \in ScheduleAnswers :
          /\ scLoop' = ScheduleAttempt(scLoop, answer)
          /\ scCall' = [scCall EXCEPT !.answers = Append(@, answer)]
    /\ UNCHANGED scCtx
    /\ UNCHANGED scOthers

ScScheduleExhausted ==
    /\ scLoop.pc = "schedule"
    /\ scLoop.i >= maxScheduleRetries
    /\ scLoop' = ScheduleExhausted(scLoop)
    /\ UNCHANGED <<scCtx, scCall>>
    /\ UNCHANGED scOthers

\* Back in runScheduler: the operators, if any, are handed to
\* AddWaitingOperator and the loop waits for its timer again.
ScAddWaitingOperator ==
    /\ scLoop.pc = "returned"
    /\ scLoop' = [scLoop EXCEPT !.pc = "timer"]
    /\ scCall' = Nil
    /\ UNCHANGED scCtx
    /\ UNCHANGED scOthers

\* The scheduler is stopped, or the coordinator is.
ScCancel ==
    /\ ~scCtx
    /\ scCtx' = TRUE
    /\ UNCHANGED <<scLoop, scCall>>
    /\ UNCHANGED scOthers

NextSchedule ==
    \/ ScTimer
    \/ ScDone
    \/ ScScheduleStopped
    \/ ScScheduleAttempt
    \/ ScScheduleExhausted
    \/ ScAddWaitingOperator
    \/ ScCancel

SpecSchedule == InitSchedule /\ [][NextSchedule]_vars

(***************************************************************************)
(* C15.  One scheduleController.Schedule call invokes the underlying       *)
(* scheduler at most maxScheduleRetries = 10 times and stops at the first  *)
(* attempt that returns operators; producing operators resets the          *)
(* scheduler's interval to GetMinInterval, and ten empty attempts set it   *)
(* to GetNextInterval(previous interval).                                  *)
(***************************************************************************)
C15ReturnsOperators(answer) == answer.ops # <<>>

C15_WitnessBackOff ==
    /\ scCall # Nil
    /\ scLoop.pc = "returned"
    /\ Len(scCall.answers) = 10
    /\ scCall.before = GetNextInterval(GetMinInterval)
    /\ scLoop.nextInterval = GetNextInterval(scCall.before)
    /\ scLoop.nextInterval > scCall.before

(***************************************************************************)
(* The coordinator's tasks and their end.  Every task is a loop around a   *)
(* select; a task is [pc, i] with pc                                       *)
(*   "none"      not started (the plugin's tasks when no plugin is loaded) *)
(*   "select"    waiting at its select                                     *)
(*   "body"      patrolRegions in a round                                  *)
(*   "schedule"  a scheduler loop in Schedule, before passage i            *)
(*   "add"       a scheduler loop holding operators for                    *)
(*               AddWaitingOperator                                        *)
(*   "exited"    returned                                                  *)
(* A scheduler's context is derived from c.ctx: it is done when c.ctx is   *)
(* cancelled or when the scheduler was stopped.                            *)
(***************************************************************************)
LifeSchedulers == {"balance-region", "plugin-scheduler"}

LifeTasks == {"patrolRegions", "drivePushOperator", "waitPluginUnload"} \cup LifeSchedulers

Task(pc) == [pc |-> pc, i |-> 0]

\* s.Ctx().Done() is ready.
SchedulerCtxDone(s) == lifeCtx \/ s \in lifeStopped

CtxDoneOf(t) == IF t \in LifeSchedulers THEN SchedulerCtxDone(t) ELSE lifeCtx

\* Mutant: the case of the done context goes round the loop again.
TaskDone_Continues(task) == [task EXCEPT !.pc = "select"]

\* The case <-ctx.Done() of a task's select: the task returns.
TaskDone(task) == [task EXCEPT !.pc = "exited"]

InitLife ==
    /\ lifeCtx = FALSE
    /\ lifeStopped = {}
    /\ \E plugin \in BOOLEAN :
          lifeTasks = [t \in LifeTasks |->
                          IF ~plugin /\ t \in {"waitPluginUnload", "plugin-scheduler"}
                          THEN Task("none") ELSE Task("select")]
    /\ lifeSeen = {}
    /\ lifeLate = {}
    /\ HotIdle /\ BalIdle /\ OpIdle /\ lifeRestIdle

\* coordinator.stop.
LifeStop ==
    /\ ~lifeCtx
    /\ lifeCtx' = TRUE
    /\ UNCHANGED <<lifeStopped, lifeTasks, lifeSeen, lifeLate>>
    /\ UNCHANGED lifeOthers

\* A task's select takes the case of the done context.
LifeDone(t) ==
    /\ lifeTasks[t].pc = "select"
    /\ CtxDoneOf(t)
    /\ lifeTasks' = [lifeTasks EXCEPT ![t] = TaskDone(@)]
    /\ lifeSeen' = IF t \in LifeSchedulers THEN lifeSeen \cup {t} ELSE lifeSeen
    /\ UNCHANGED <<lifeCtx, lifeStopped, lifeLate>>
    /\ UNCHANGED lifeOthers

\* patrolRegions: the timer fires and a round begins; the round ends.
LifePatrolTimer ==
    /\ lifeTasks["patrolRegions"].pc = "select"
    /\ lifeTasks' = [lifeTasks EXCEPT !["patrolRegions"].pc = "body"]
    /\ UNCHANGED <<lifeCtx, lifeStopped, lifeSeen, lifeLate>>
    /\ UNCHANGED lifeOthers

LifePatrolRound ==
    /\ lifeTasks["patrolRegions"].pc = "body"
    /\ lifeTasks' = [lifeTasks EXCEPT !["patrolRegions"].pc = "select"]
    /\ UNCHANGED <<lifeCtx, lifeStopped, lifeSeen, lifeLate>>
    /\ UNCHANGED lifeOthers

\* drivePushOperator: the ticker fires, PushOperators is called.
LifePushTicker ==
    /\ lifeTasks["drivePushOperator"].pc = "select"
    /\ UNCHANGED <<lifeCtx, lifeStopped, lifeTasks, lifeSeen, lifeLate>>
    /\ UNCHANGED lifeOthers

\* runScheduler: the timer fires; with AllowSchedule, Schedule is entered.
LifeSchedulerTimer(s) ==
    /\ lifeTasks[s].pc = "select"
    /\ \E allow \in BOOLEAN :
          lifeTasks' = [lifeTasks EXCEPT ![s] = IF allow THEN [pc |-> "schedule", i |-> 0]
                                                ELSE @]
    /\ UNCHANGED <<lifeCtx, lifeStopped, lifeSeen, lifeLate>>
    /\ UNCHANGED lifeOthers

\* One passage of Schedule's loop: the context is looked at first; the
\* scheduler answers nil or with operators.
LifeSchedule(s) ==
    /\ lifeTasks[s].pc = "schedule"
    /\ IF lifeTasks[s].i >= maxScheduleRetries
       THEN /\ lifeTasks' = [lifeTasks EXCEPT ![s] = Task("select")]
            /\ UNCHANGED lifeSeen
       ELSE IF SchedulerCtxDone(s)
       THEN /\ lifeTasks' = [lifeTasks EXCEPT ![s] = Task("select")]
            /\ lifeSeen' = lifeSeen \cup {s}
       ELSE /\ \E answered \in BOOLEAN :
                  lifeTasks' = [lifeTasks EXCEPT ![s] = IF answered THEN Task("add")
                                                        ELSE [@ EXCEPT !.i = @ + 1]]
            /\ UNCHANGED lifeSeen
    /\ UNCHANGED <<lifeCtx, lifeStopped, lifeLate>>
    /\ UNCHANGED lifeOthers

\* runScheduler hands the operators to AddWaitingOperator.
LifeAddWaitingOperator(s) ==
    /\ lifeTasks[s].pc = "add"
    /\ lifeTasks' = [lifeTasks EXCEPT ![s] = Task("select")]
    /\ lifeLate' = IF s \in lifeSeen THEN lifeLate \cup {s} ELSE lifeLate
    /\ UNCHANGED <<lifeCtx, lifeStopped, lifeSeen>>
    /\ UNCHANGED lifeOthers

\* waitPluginUnload receives an action: PluginUnload with removeScheduler
\* succeeding stops the scheduler and ends the waiter; anything else is
\* logged.
LifePluginAction ==
    /\ lifeTasks["waitPluginUnload"].pc = "select"
    /\ \E unloaded \in BOOLEAN :
          IF unloaded /\ "plugin-scheduler" \notin lifeStopped
          THEN /\ lifeStopped' = lifeStopped \cup {"plugin-scheduler"}
               /\ lifeTasks' = [lifeTasks EXCEPT !["waitPluginUnload"].pc = "exited"]
          ELSE UNCHANGED <<lifeStopped, lifeTasks>>
    /\ UNCHANGED <<lifeCtx, lifeSeen, lifeLate>>
    /\ UNCHANGED lifeOthers

\* removeScheduler called for a scheduler: s.Stop().
LifeRemoveScheduler(s) ==
    /\ lifeTasks[s].pc # "none"
    /\ s \notin lifeStopped
    /\ lifeStopped' = lifeStopped \cup {s}
    /\ UNCHANGED <<lifeCtx, lifeTasks, lifeSeen, lifeLate>>
    /\ UNCHANGED lifeOthers

NextLife ==
    \/ LifeStop
    \/ \E t \in LifeTasks : LifeDone(t)
    \/ LifePatrolTimer
    \/ LifePatrolRound
    \/ LifePushTicker
    \/ \E s \in LifeSchedulers : LifeSchedulerTimer(s)
    \/ \E s \in LifeSchedulers : LifeSchedule(s)
    \/ \E s \in LifeSchedulers : LifeAddWaitingOperator(s)
    \/ LifePluginAction
    \/ \E s \in LifeSchedulers : LifeRemoveScheduler(s)

\* A task that is in the body of its loop goes on (weak fairness), and a
\* select whose done case is ready again and again takes it in the end
\* (strong fairness): Go chooses among the ready cases of a select at
\* random.
LifeFairness ==
    /\ \A t \in LifeTasks : SF_vars(LifeDone(t))
    /\ WF_vars(LifePatrolRound)
    /\ \A s \in LifeSchedulers : WF_vars(LifeSchedule(s))
    /\ \A s \in LifeSchedulers : WF_vars(LifeAddWaitingOperator(s))

SpecLife == InitLife /\ [][NextLife]_vars /\ LifeFairness

(***************************************************************************)
(* C16.  After coordinator.stop() every task of the coordinator eventually *)
(* terminates: the patrol loop, the push loop, every registered scheduler  *)
(* loop and every plugin-unload waiter exit, and a scheduler loop submits  *)
(* no operator after it has observed the cancellation.                     *)
(***************************************************************************)
C16AllExited == \A t \in LifeTasks : lifeTasks[t].pc \in {"none", "exited"}

C16_StopEndsEveryTask == (lifeCtx ~> C16AllExited) /\ [](lifeLate = {})

\* The coordinator was stopped with the plugin loaded and no scheduler
\* removed: every scheduler loop observed the cancellation and every task
\* has returned.
C16_Witness ==
    /\ lifeCtx
    /\ \A t \in LifeTasks : lifeTasks[t].pc = "exited"
    /\ lifeSeen = LifeSchedulers
    /\ lifeStopped = {}

(***************************************************************************)
(* coordinator.run up to the start of the workers.  runPc is               *)
(*   "wait"      in the loop that waits for shouldRun                      *)
(*   "load"      at the head of the loading loop (i < maxLoadConfigRetries *)
(*               is tested next)                                           *)
(*   "select"    LoadAllScheduleConfig has returned; the context is looked *)
(*               at next                                                   *)
(*   "test"      err is tested next                                        *)
(*   "create"    past the loading loop with err == nil                     *)
(*   "fatal"     log.Fatal was called                                      *)
(*   "returned"  run returned on the cancelled context                     *)
(*   "running"   schedulers created, patrolRegions and drivePushOperator   *)
(*               started                                                   *)
(***************************************************************************)
maxLoadConfigRetries == 10

\* Mutant: the error left by the last attempt is not looked at.
AfterLoadLoop_NoFatal(err) == "create"

\* After the loading loop: if err != nil { log.Fatal(...) }.
AfterLoadLoop(err) == IF err THEN "fatal" ELSE "create"

InitRun ==
    /\ runPc = "wait"
    /\ runI = 0
    /\ runErr = FALSE
    /\ runCalls = 0
    /\ runFails = 0
    /\ runCtx \in BOOLEAN
    /\ runWorkers = FALSE
    /\ HotIdle /\ BalIdle /\ OpIdle /\ runRestIdle

\* The waiting loop: shouldRun ends it; otherwise the select takes the
\* ticker or the done context.
RunShouldRun ==
    /\ runPc = "wait"
    /\ runPc' = "load"
    /\ UNCHANGED <<runI, runErr, runCalls, runFails, runCtx, runWorkers>>
    /\ UNCHANGED runOthers

RunWaitTicker ==
    /\ runPc = "wait"
    /\ UNCHANGED <<runPc, runI, runErr, runCalls, runFails, runCtx, runWorkers>>
    /\ UNCHANGED runOthers

RunWaitDone ==
    /\ runPc = "wait"
    /\ runCtx
    /\ runPc' = "returned"
    /\ UNCHANGED <<runI, runErr, runCalls, runFails, runCtx, runWorkers>>
    /\ UNCHANGED runOthers

\* i < maxLoadConfigRetries: LoadAllScheduleConfig is called and succeeds or
\* fails.
RunLoad ==
    /\ runPc = "load"
    /\ runI < maxLoadConfigRetries
    /\ \E failed \in BOOLEAN :
          /\ runErr' = failed
          /\ runFails' = IF failed THEN runFails + 1 ELSE runFails
    /\ runCalls' = runCalls + 1
    /\ runPc' = "select"
    /\ UNCHANGED <<runI, runCtx, runWorkers>>
    /\ UNCHANGED runOthers

\* select { case <-c.ctx.Done(): return; default: }
RunSelect ==
    /\ runPc = "select"
    /\ runPc' = IF runCtx THEN "returned" ELSE "test"
    /\ UNCHANGED <<runI, runErr, runCalls, runFails, runCtx, runWorkers>>
    /\ UNCHANGED runOthers

\* if err == nil { break }; otherwise the error is logged and i++.
RunTest ==
    /\ runPc = "test"
    /\ IF runErr
       THEN /\ runI' = runI + 1
            /\ runPc' = "load"
       ELSE /\ runPc' = AfterLoadLoop(runErr)
            /\ UNCHANGED runI
    /\ UNCHANGED <<runErr, runCalls, runFails, runCtx, runWorkers>>
    /\ UNCHANGED runOthers

\* The loop ends with i = maxLoadConfigRetries.
RunLoopEnd ==
    /\ runPc = "load"
    /\ runI >= maxLoadConfigRetries
    /\ runPc' = AfterLoadLoop(runErr)
    /\ UNCHANGED <<runI, runErr, runCalls, runFails, runCtx, runWorkers>>
    /\ UNCHANGED runOthers

\* The schedulers are created and the two workers started.
RunCreate ==
    /\ runPc = "create"
    /\ runPc' = "running"
    /\ runWorkers' = TRUE
    /\ UNCHANGED <<runI, runErr, runCalls, runFails, runCtx>>
    /\ UNCHANGED runOthers

\* coordinator.stop, at any moment.
RunStop ==
    /\ ~runCtx
    /\ runCtx' = TRUE
    /\ UNCHANGED <<runPc, runI, runErr, runCalls, runFails, runWorkers>>
    /\ UNCHANGED runOthers

NextRun ==
    \/ RunShouldRun
    \/ RunWaitTicker
    \/ RunWaitDone
    \/ RunLoad
    \/ RunSelect
    \/ RunTest
    \/ RunLoopEnd
    \/ RunCreate
    \/ RunStop

SpecRun == InitRun /\ [][NextRun]_vars

(***************************************************************************)
(* C19.  run calls LoadAllScheduleConfig at most 10 times and stops        *)
(* retrying at the first success; it reaches the fatal exit if and only if *)
(* all 10 attempts fail, and it returns without creating any scheduler or  *)
(* worker if the context is cancelled while loading.                       *)
(***************************************************************************)
C19Ended == runPc \in {"fatal", "returned", "running"}

C19AllFailed == runFails = maxLoadConfigRetries

\* The sentence as it stands: a run that has ended is at the fatal exit
\* exactly when all 10 attempts failed.
C19_Original == C19Ended => (runPc = "fatal" <=> C19AllFailed)

\* At most 10 calls, none after a success.
C19LoadsBounded ==
    /\ runCalls <= maxLoadConfigRetries
    /\ runCalls - runFails \in {0, 1}

C19NoLoadAfterSuccess == runCalls' # runCalls => runCalls = runFails

\* The fatal exit is reached exactly when all 10 attempts failed and the
\* context was not found cancelled after any of them.
C19FatalExactly ==
    /\ runPc = "fatal" => C19AllFailed
    /\ C19Ended /\ C19AllFailed /\ runPc # "returned" => runPc = "fatal"
    /\ runPc \in {"create", "running"} => runCalls = runFails + 1

\* A context found cancelled after a load makes run return, and a run that
\* returned created nothing.
C19ReturnsOnCancel == runPc = "select" /\ runCtx /\ runPc' # runPc => runPc' = "returned"

C19CreatesNothing == runPc \in {"returned", "fatal"} => ~runWorkers

C19_LoadRetries ==
    /\ [](C19LoadsBounded /\ C19FatalExactly /\ C19CreatesNothing)
    /\ [][C19NoLoadAfterSuccess /\ C19ReturnsOnCancel]_vars

\* All 10 attempts failed with the context live, and run is at the fatal
\* exit.
C19_Witness == runPc = "fatal" /\ runCalls = maxLoadConfigRetries /\ ~runCtx

\* The tenth attempt failed too, the context was found cancelled after it,
\* and run returned.
C19_WitnessCancelled == runPc = "returned" /\ C19AllFailed

(***************************************************************************)
(* C20.  isDownPeer(region, peer) is true exactly when the peer is in the  *)
(* region's down-peer list and its store's down time is at least           *)
(* maxStoreDownTime; isOfflinePeer(region, peer) is true exactly when the  *)
(* peer's store is not up.  A store that the cluster has lost has neither  *)
(* a down time nor a state, and both answers are then false.               *)
(***************************************************************************)
C20Store == GetStore(ruleIn.cluster, ruleIn.peer.StoreId)

C20InDownList ==
    \E k \in 1..Len(ruleIn.region.DownPeers) :
        ruleIn.region.DownPeers[k].Peer.Id = ruleIn.peer.Id

C20_DownAndOffline ==
    /\ ruleOut # Nil /\ ruleIn.fn = "isDownPeer" =>
          (ruleOut.is <=> /\ C20InDownList
                          /\ C20Store # Nil
                          /\ C20Store.DownTime >= ruleIn.cluster.maxStoreDownTime)
    /\ ruleOut # Nil /\ ruleIn.fn = "isOfflinePeer" =>
          (ruleOut.is <=> C20Store # Nil /\ C20Store.State # "Up")

\* isDownPeer answered true for a peer listed second among the down peers,
\* reported with 0 down seconds, whose store has been down long enough.
C20_Witness ==
    /\ ruleOut # Nil /\ ruleIn.fn = "isDownPeer"
    /\ ruleOut.is
    /\ Len(ruleIn.region.DownPeers) = 2
    /\ ruleIn.region.DownPeers[1].Peer.Id # ruleIn.peer.Id
    /\ ruleIn.region.DownPeers[2].DownSeconds = 0
    /\ ruleIn.cluster.maxStoreDownTime > 0

\* isOfflinePeer answered true for a peer on an offline store.
C20_WitnessOffline ==
    /\ ruleOut # Nil /\ ruleIn.fn = "isOfflinePeer"
    /\ ruleOut.is
    /\ C20Store.State = "Offline"

(***************************************************************************)
(* Keys, the region tree and ScanRegions.  A key is a natural number and 0 *)
(* is the empty key: as a start key the beginning of the key space, as an  *)
(* end key its end.  The cluster knows the regions 1..hi; region r starts  *)
(* at key r - 1 and ends at key r, and when the tree is open the last      *)
(* region's end key is empty.                                              *)
(***************************************************************************)
EmptyKey == 0

\* bytes.Compare(a, b) < 0: the empty key is the smallest.
BytesLess(a, b) == a < b

GetStartKey(r) == r - 1

GetEndKey(tree, r) == IF r = tree.hi /\ tree.open THEN EmptyKey ELSE r

\* The first region that holds startKey or starts after it (hi + 1: none).
FirstRegionFrom(tree, startKey) ==
    IF startKey + 1 <= tree.hi THEN startKey + 1
    ELSE IF tree.open /\ tree.hi > 0 THEN tree.hi
    ELSE tree.hi + 1

\* cluster.ScanRegions(startKey, endKey, limit): the regions from the one
\* holding startKey on, in key order, that start before endKey (an empty
\* endKey: to the end), at most limit of them.
ScanRegions(tree, startKey, endKey, limit) ==
    LET first == FirstRegionFrom(tree, startKey)
        upper == IF endKey = EmptyKey THEN tree.hi ELSE Min(tree.hi, endKey)
        n == Max(0, Min(upper - first + 1, limit))
    IN  [i \in 1..n |-> first + i - 1]

(***************************************************************************)
(* checkSuspectKeyRanges.  The cluster is [tree, suspectRegions,           *)
(* suspectKeyRanges]; a key range is <<start key, end key>>.               *)
(***************************************************************************)
MaxRangeRegions == 1030

\* limit := 1024
checkSuspectKeyRangesLimit == 1024

\* The key ranges checkSuspectKeyRanges puts back after a scan that
\* returned regions.
RestKeyRanges(tree, regions, keyRange) ==
    LET lastRegion == regions[Len(regions)] IN
    IF GetEndKey(tree, lastRegion) # EmptyKey
       /\ BytesLess(GetEndKey(tree, lastRegion), keyRange[2])
    THEN {<<GetEndKey(tree, lastRegion), keyRange[2]>>}
    ELSE {}

\* checkSuspectKeyRanges once PopOneSuspectKeyRange has given keyRange.
checkSuspectKeyRanges(cluster, keyRange) ==
    LET popped == [cluster EXCEPT !.suspectKeyRanges = @ \ {keyRange}]
        regions == ScanRegions(cluster.tree, keyRange[1], keyRange[2],
                               checkSuspectKeyRangesLimit)
    IN  IF Len(regions) = 0 THEN popped
        ELSE [popped EXCEPT
                 !.suspectKeyRanges = @ \cup RestKeyRanges(cluster.tree, regions, keyRange),
                 !.suspectRegions = @ \cup Range(regions)]

RangeTrees == [hi : {0, 1, 2, 3, MaxRangeRegions}, open : BOOLEAN]

RangeKeys == {EmptyKey, 1, 2, 3, checkSuspectKeyRangesLimit, MaxRangeRegions}

KeyRanges == {kr \in RangeKeys \X RangeKeys : kr[2] = EmptyKey \/ kr[1] < kr[2]}

KeyRangeClusters ==
    [tree : RangeTrees,
     suspectRegions : {{}, {2}},
     suspectKeyRanges : {{}} \cup {{a} : a \in KeyRanges}
                             \cup {{a, <<1, 2>>} : a \in KeyRanges}]

InitKeyRange ==
    /\ krIn \in KeyRangeClusters
    /\ krOut = Nil
    /\ HotIdle /\ BalIdle /\ OpIdle /\ krRestIdle

\* PopOneSuspectKeyRange fails: checkSuspectKeyRanges returns.
CheckSuspectKeyRangesNone ==
    /\ krOut = Nil
    /\ krIn.suspectKeyRanges = {}
    /\ krOut' = [keyRange |-> <<>>, regions |-> <<>>, cluster |-> krIn]
    /\ UNCHANGED krIn
    /\ UNCHANGED krOthers

\* PopOneSuspectKeyRange gives one of the key ranges.
CheckSuspectKeyRanges ==
    /\ krOut = Nil
    /\ \E keyRange \in krIn.suspectKeyRanges :
          krOut' = [keyRange |-> keyRange,
                    regions |-> ScanRegions(krIn.tree, keyRange[1], keyRange[2],
                                            checkSuspectKeyRangesLimit),
                    cluster |-> checkSuspectKeyRanges(krIn, keyRange)]
    /\ UNCHANGED krIn
    /\ UNCHANGED krOthers

NextKeyRange ==
    \/ CheckSuspectKeyRangesNone
    \/ CheckSuspectKeyRanges

SpecKeyRange == InitKeyRange /\ [][NextKeyRange]_vars

(***************************************************************************)
(* C18.  checkSuspectKeyRanges pops one suspect key range, adds every      *)
(* region returned by the bounded scan of that range to the suspect        *)
(* regions, and, when the last scanned region's end key is below the       *)
(* range's end, re-enqueues exactly the remainder [last end key, range     *)
(* end]; when the scan returns no region nothing is added or re-enqueued.  *)
(* An end key that is empty is the end of the key space: every other key   *)
(* is below it.                                                            *)
(***************************************************************************)
C18Popped == krOut # Nil /\ krOut.keyRange # <<>>

C18LastEndKey == GetEndKey(krIn.tree, krOut.regions[Len(krOut.regions)])

\* End key a lies below end key b.
C18EndBelow(a, b) == a # EmptyKey /\ (b = EmptyKey \/ a < b)

C18Remainder ==
    IF Len(krOut.regions) > 0 /\ C18EndBelow(C18LastEndKey, krOut.keyRange[2])
    THEN {<<C18LastEndKey, krOut.keyRange[2]>>}
    ELSE {}

C18_PopScanRequeue ==
    C18Popped =>
       /\ krOut.cluster.suspectRegions = krIn.suspectRegions \cup Range(krOut.regions)
       /\ krOut.cluster.suspectKeyRanges
             = (krIn.suspectKeyRanges \ {krOut.keyRange}) \cup C18Remainder

\* The scan of a range whose end is empty was cut by its limit with regions
\* of the range left over, and no key range was put back.
C18_Lost ==
    /\ C18Popped
    /\ krOut.keyRange[2] = EmptyKey
    /\ Len(krOut.regions) = checkSuspectKeyRangesLimit
    /\ krIn.tree.hi > krOut.regions[Len(krOut.regions)]
    /\ krOut.cluster.suspectKeyRanges = krIn.suspectKeyRanges \ {krOut.keyRange}

(***************************************************************************)
(* patrolRegions with its scan key.  scanLoop is                           *)
(*   pc       "select"        at the select on the timer                   *)
(*            "suspects"      at the head of the loop over the suspects    *)
(*            "suspectCheck"  GetOperator gave nil; CheckRegion is next    *)
(*            "keyRanges"     checkSuspectKeyRanges is next                *)
(*            "scan"          ScanRegions is next                          *)
(*            "batch"         at the head of the loop over the batch       *)
(*            "batchCheck"    GetOperator gave nil; CheckRegion is next    *)
(*   key      the scan key                                                 *)
(*   ids      the suspect regions still to walk in this round              *)
(*   regions  the batch, i the position in it                              *)
(*   round    what this round has done so far, in order: "suspects" once   *)
(*            the loop over the suspects is over, "scan" once ScanRegions  *)
(*            was called                                                   *)
(*   had      whether the last GetOperator of the scan gave an operator    *)
(*   empty    whether the last ScanRegions returned nothing                *)
(* Operators come and go while patrolRegions runs: the schedulers and the  *)
(* heartbeats run beside it.                                               *)
(***************************************************************************)
patrolScanRegionLimit == 128

MaxScanRegions == 130

ScanOpRegions == {2}

ScanSuspectRegions == {2}

ScanSuspectKeyRanges == {<<0, 2>>}

ScanTrees == {[hi |-> 0, open |-> FALSE], [hi |-> 1, open |-> FALSE],
              [hi |-> 2, open |-> FALSE], [hi |-> MaxScanRegions, open |-> TRUE]}

\* The orders in which GetSuspectRegions may list the suspects.
SuspectOrders(suspects) ==
    {ids \in [1..Cardinality(suspects) -> suspects] : Range(ids) = suspects}

\* c.cluster.GetRegion(id) is not nil.
HasRegion(tree, id) == id \in 1..tree.hi

\* Mutant: the scan does not look for an operator.
HasOperator_Ignored(pending, id) == FALSE

\* c.opController.GetOperator(id) != nil.
HasOperator(pending, id) == id \in pending

\* CheckRegion's answers: the checkers are busy, no operator, operators.
CheckRegionAnswers == {"busy", "none", "ops"}

\* AddWaitingOperator(ops...) when the answer holds operators: an operator
\* for the region is admitted.
AfterCheckRegion(pending, id, answer) ==
    IF answer = "ops" /\ id \in ScanOpRegions THEN pending \cup {id} ELSE pending

InitScan ==
    /\ scanTree \in ScanTrees
    /\ scanOperators = {}
    /\ scanSuspects = {}
    /\ scanKeyRanges = {}
    /\ scanLoop = [pc |-> "select", key |-> EmptyKey, ids |-> <<>>, regions |-> <<>>,
                   i |-> 0, round |-> <<>>, had |-> FALSE, empty |-> FALSE]
    /\ HotIdle /\ BalIdle /\ OpIdle /\ scanRestIdle

\* case <-timer.C: a round begins with GetSuspectRegions.
ScanTimer ==
    /\ scanLoop.pc = "select"
    /\ \E ids \in SuspectOrders(scanSuspects) :
          scanLoop' = [scanLoop EXCEPT !.pc = "suspects", !.ids = ids, !.regions = <<>>,
                                       !.i = 0, !.round = <<>>, !.had = FALSE,
                                       !.empty = FALSE]
    /\ UNCHANGED <<scanTree, scanOperators, scanSuspects, scanKeyRanges>>
    /\ UNCHANGED scanOthers

\* The loop over the suspects: a region the cluster does not know is left
\* for later, one with an operator is removed from the suspects, any other
\* goes to CheckRegion; after the last one the loop is over.
ScanSuspectNext ==
    /\ scanLoop.pc = "suspects"
    /\ IF scanLoop.ids = <<>>
       THEN /\ scanLoop' = [scanLoop EXCEPT !.pc = "keyRanges",
                                            !.round = Append(@, "suspects")]
            /\ UNCHANGED scanSuspects
       ELSE LET id == Head(scanLoop.ids) IN
            IF ~HasRegion(scanTree, id)
            THEN /\ scanLoop' = [scanLoop EXCEPT !.ids = Tail(@)]
                 /\ UNCHANGED scanSuspects
            ELSE IF HasOperator(scanOperators, id)
            THEN /\ scanLoop' = [scanLoop EXCEPT !.ids = Tail(@)]
                 /\ scanSuspects' = scanSuspects \ {id}
            ELSE /\ scanLoop' = [scanLoop EXCEPT !.pc = "suspectCheck"]
                 /\ UNCHANGED scanSuspects
    /\ UNCHANGED <<scanTree, scanOperators, scanKeyRanges>>
    /\ UNCHANGED scanOthers

\* CheckRegion on a suspect: busy checkers end the loop; otherwise the
\* operators are handed over and the region is no suspect any more.
ScanSuspectCheck ==
    /\ scanLoop.pc = "suspectCheck"
    /\ \E answer \in CheckRegionAnswers :
          LET id == Head(scanLoop.ids) IN
          IF answer = "busy"
          THEN /\ scanLoop' = [scanLoop EXCEPT !.pc = "keyRanges", !.ids = <<>>,
                                               !.round = Append(@, "suspects")]
               /\ UNCHANGED <<scanOperators, scanSuspects>>
          ELSE /\ scanLoop' = [scanLoop EXCEPT !.pc = "suspects", !.ids = Tail(@)]
               /\ scanOperators' = AfterCheckRegion(scanOperators, id, answer)
               /\ scanSuspects' = scanSuspects \ {id}
    /\ UNCHANGED <<scanTree, scanKeyRanges>>
    /\ UNCHANGED scanOthers

\* c.checkSuspectKeyRanges().
ScanCheckSuspectKeyRanges ==
    /\ scanLoop.pc = "keyRanges"
    /\ LET cluster == [tree |-> scanTree, suspectRegions |-> scanSuspects,
                       suspectKeyRanges |-> scanKeyRanges]
       IN  IF scanKeyRanges = {}
           THEN UNCHANGED <<scanSuspects, scanKeyRanges>>
           ELSE \E keyRange \in scanKeyRanges :
                   LET after == checkSuspectKeyRanges(cluster, keyRange) IN
                   /\ scanSuspects' = after.suspectRegions
                   /\ scanKeyRanges' = after.suspectKeyRanges
    /\ scanLoop' = [scanLoop EXCEPT !.pc = "scan"]
    /\ UNCHANGED <<scanTree, scanOperators>>
    /\ UNCHANGED scanOthers

\* ScanRegions(key, nil, patrolScanRegionLimit); an empty batch resets the
\* key and ends the round.
ScanScanRegions ==
    /\ scanLoop.pc = "scan"
    /\ LET regions == ScanRegions(scanTree, scanLoop.key, EmptyKey, patrolScanRegionLimit) IN
       IF Len(regions) = 0
       THEN scanLoop' = [scanLoop EXCEPT !.pc = "select", !.key = EmptyKey,
                                         !.round = Append(@, "scan"), !.empty = TRUE]
       ELSE scanLoop' = [scanLoop EXCEPT !.pc = "batch", !.regions = regions, !.i = 1,
                                         !.round = Append(@, "scan")]
    /\ UNCHANGED <<scanTree, scanOperators, scanSuspects, scanKeyRanges>>
    /\ UNCHANGED scanOthers

\* The loop over the batch: a region with an operator is skipped, any other
\* goes to CheckRegion; after the last one the round is over.
ScanBatchNext ==
    /\ scanLoop.pc = "batch"
    /\ IF scanLoop.i > Len(scanLoop.regions)
       THEN scanLoop' = [scanLoop EXCEPT !.pc = "select"]
       ELSE LET id == scanLoop.regions[scanLoop.i] IN
            IF HasOperator(scanOperators, id)
            THEN scanLoop' = [scanLoop EXCEPT !.i = @ + 1, !.had = TRUE]
            ELSE scanLoop' = [scanLoop EXCEPT !.pc = "batchCheck",
                                              !.had = id \in scanOperators]
    /\ UNCHANGED <<scanTree, scanOperators, scanSuspects, scanKeyRanges>>
    /\ UNCHANGED scanOthers

\* CheckRegion on a region of the batch: busy checkers end the loop;
\* otherwise the key moves to the region's end key and the operators are
\* handed over.
ScanBatchCheck ==
    /\ scanLoop.pc = "batchCheck"
    /\ \E answer \in CheckRegionAnswers :
          LET id == scanLoop.regions[scanLoop.i] IN
          IF answer = "busy"
          THEN /\ scanLoop' = [scanLoop EXCEPT !.pc = "select"]
               /\ UNCHANGED scanOperators
          ELSE /\ scanLoop' = [scanLoop EXCEPT !.pc = "batch", !.i = @ + 1,
                                               !.key = GetEndKey(scanTree, id)]
               /\ scanOperators' = AfterCheckRegion(scanOperators, id, answer)
    /\ UNCHANGED <<scanTree, scanSuspects, scanKeyRanges>>
    /\ UNCHANGED scanOthers

\* Beside patrolRegions: an operator is admitted for a region (a scheduler's
\* AddWaitingOperator), or a region's operator ends.
ScanOperatorAdmitted(id) ==
    /\ id \notin scanOperators
    /\ scanOperators' = scanOperators \cup {id}
    /\ UNCHANGED <<scanTree, scanSuspects, scanKeyRanges, scanLoop>>
    /\ UNCHANGED scanOthers

ScanOperatorEnded(id) ==
    /\ id \in scanOperators
    /\ scanOperators' = scanOperators \ {id}
    /\ UNCHANGED <<scanTree, scanSuspects, scanKeyRanges, scanLoop>>
    /\ UNCHANGED scanOthers

\* Beside patrolRegions: AddSuspectRegions, AddSuspectKeyRange.
ScanAddSuspectRegions(id) ==
    /\ id \notin scanSuspects
    /\ scanSuspects' = scanSuspects \cup {id}
    /\ UNCHANGED <<scanTree, scanOperators, scanKeyRanges, scanLoop>>
    /\ UNCHANGED scanOthers

ScanAddSuspectKeyRange(keyRange) ==
    /\ keyRange \notin scanKeyRanges
    /\ scanKeyRanges' = scanKeyRanges \cup {keyRange}
    /\ UNCHANGED <<scanTree, scanOperators, scanSuspects, scanLoop>>
    /\ UNCHANGED scanOthers

NextScan ==
    \/ ScanTimer
    \/ ScanSuspectNext
    \/ ScanSuspectCheck
    \/ ScanCheckSuspectKeyRanges
    \/ ScanScanRegions
    \/ ScanBatchNext
    \/ ScanBatchCheck
    \/ \E id \in ScanOpRegions : ScanOperatorAdmitted(id)
    \/ \E id \in ScanOpRegions : ScanOperatorEnded(id)
    \/ \E id \in ScanSuspectRegions : ScanAddSuspectRegions(id)
    \/ \E keyRange \in ScanSuspectKeyRanges : ScanAddSuspectKeyRange(keyRange)

SpecScan == InitScan /\ [][NextScan]_vars

(***************************************************************************)
(* C17.  In every patrol round the suspect regions are handled before the  *)
(* key-ordered scan batch, the batch holds at most patrolScanRegionLimit   *)
(* = 128 regions, CheckRegion is never invoked in the scan for a region    *)
(* that currently has an operator, and the scan key is reset to the start  *)
(* when a batch comes back empty.                                          *)
(***************************************************************************)
C17InScan == scanLoop.pc \in {"scan", "batch", "batchCheck"}

\* The loop over the suspects is over before ScanRegions is called.
C17SuspectsFirst ==
    /\ C17InScan => scanLoop.ids = <<>> /\ "suspects" \in Range(scanLoop.round)
    /\ scanLoop.round \in {<<>>, <<"suspects">>, <<"suspects", "scan">>}

C17BatchBounded == Len(scanLoop.regions) <= patrolScanRegionLimit

C17KeyReset == scanLoop.empty => scanLoop.key = EmptyKey /\ scanLoop.pc = "select"

\* The step that invokes CheckRegion in the scan.
C17ScanInvokesCheckRegion == scanLoop.pc = "batchCheck" /\ scanLoop'.pc # "batchCheck"

C17NoOperatorAtCall ==
    C17ScanInvokesCheckRegion => scanLoop.regions[scanLoop.i] \notin scanOperators

\* The sentence as it stands.
C17_Original ==
    /\ [](C17SuspectsFirst /\ C17BatchBounded /\ C17KeyReset)
    /\ [][C17NoOperatorAtCall]_vars

\* CheckRegion is invoked in the scan only for a region for which the
\* GetOperator of that passage gave nil.
C17NoOperatorAtLook == C17ScanInvokesCheckRegion => ~scanLoop.had

C17_PatrolRound ==
    /\ [](C17SuspectsFirst /\ C17BatchBounded /\ C17KeyReset)
    /\ [][C17NoOperatorAtLook]_vars

\* In a round that first walked the suspects, the scan of a cluster of more
\* than 128 regions holds a full batch, has skipped region 2 for its
\* operator and is about to invoke CheckRegion on a later region.
C17_Witness ==
    /\ scanLoop.pc = "batchCheck"
    /\ scanLoop.round = <<"suspects", "scan">>
    /\ Len(scanLoop.regions) = patrolScanRegionLimit
    /\ scanTree.hi > patrolScanRegionLimit
    /\ scanLoop.regions[1] = 2
    /\ scanLoop.i = 2
    /\ scanLoop.key = 1

\* A batch came back empty with the key not at the start, and the key was
\* reset.
C17_WitnessReset == scanLoop.empty /\ scanTree.hi > 0 /\ scanLoop.key = EmptyKey

(***************************************************************************)
(* RemovePeer.Influence.  A store's influence is [RegionSize, RegionCount, *)
(* StepCost], StepCost holding the cost charged per kind of store limit.   *)
(* AdjustStepCost charges a region of the given size against the limit:    *)
(* the size, at most the cap of the limit.                                 *)
(***************************************************************************)
SmallRegionThreshold == 20

MaxApproximateSize == 30

\* StoreInfluence.AdjustStepCost(limitType, regionSize).
AdjustStepCost(infl, limitType, regionSize, cap) ==
    [infl EXCEPT !.StepCost[limitType] = @ + Min(regionSize, cap)]

\* Mutant: a down store is charged like any other.
RemovePeerInfluence_AlwaysRegionSize(rp, opInfluence, region, cap) ==
    LET from == GetStoreInfluence(opInfluence, rp.FromStore)
        regionSize == region.ApproximateSize
        moved == [from EXCEPT !.RegionSize = @ - regionSize, !.RegionCount = @ - 1]
    IN  [opInfluence EXCEPT ![rp.FromStore] =
             AdjustStepCost(moved, "RemovePeer", regionSize, cap)]

\* RemovePeer.Influence: the influences after the call.
RemovePeerInfluence(rp, opInfluence, region, cap) ==
    LET from == GetStoreInfluence(opInfluence, rp.FromStore)
        regionSize == region.ApproximateSize
        moved == [from EXCEPT !.RegionSize = @ - regionSize, !.RegionCount = @ - 1]
    IN  [opInfluence EXCEPT ![rp.FromStore] =
             IF rp.IsDownStore
             THEN AdjustStepCost(moved, "RemovePeer", SmallRegionThreshold, cap)
             ELSE AdjustStepCost(moved, "RemovePeer", regionSize, cap)]

StepInfluences ==
    [RegionSize : {-5, 0, 40}, RegionCount : {-1, 0, 2},
     StepCost : [{"AddPeer", "RemovePeer"} -> {0, 10}]]

InfluenceCalls ==
    [step : [FromStore : {1, 2}, IsDownStore : BOOLEAN],
     region : [ApproximateSize : {0, 1, SmallRegionThreshold - 1, SmallRegionThreshold,
                                  SmallRegionThreshold + 1, MaxApproximateSize}],
     cap : {SmallRegionThreshold - 5, MaxApproximateSize + 5},
     opInfluence : [{1, 2} -> StepInfluences]]

InitInfluence ==
    /\ infIn \in InfluenceCalls
    /\ infOut = Nil
    /\ HotIdle /\ BalIdle /\ OpIdle /\ infRestIdle

Influence ==
    /\ infOut = Nil
    /\ infOut' = [opInfluence |-> RemovePeerInfluence(infIn.step, infIn.opInfluence,
                                                      infIn.region, infIn.cap)]
    /\ UNCHANGED infIn
    /\ UNCHANGED infOthers

NextInfluence == Influence

SpecInfluence == InitInfluence /\ [][NextInfluence]_vars

(***************************************************************************)
(* C21.  RemovePeer.Influence debits the source store's RemovePeer         *)
(* store-limit cost by SmallRegionThreshold when the step is marked        *)
(* IsDownStore and by the region's approximate size otherwise; the store's *)
(* region size and region count influence are decremented identically in   *)
(* both cases.  To debit by a size is to charge a region of that size      *)
(* with AdjustStepCost.  No other store and no other cost changes.         *)
(***************************************************************************)
C21Charged ==
    IF infIn.step.IsDownStore THEN SmallRegionThreshold ELSE infIn.region.ApproximateSize

C21_RemovePeerInfluence ==
    infOut # Nil =>
       LET from == infIn.step.FromStore
           before == infIn.opInfluence[from]
           after == infOut.opInfluence[from]
       IN  /\ after.StepCost["RemovePeer"]
                 = before.StepCost["RemovePeer"] + Min(C21Charged, infIn.cap)
           /\ after.StepCost["AddPeer"] = before.StepCost["AddPeer"]
           /\ after.RegionSize = before.RegionSize - infIn.region.ApproximateSize
           /\ after.RegionCount = before.RegionCount - 1
           /\ \A s \in DOMAIN infIn.opInfluence \ {from} :
                 infOut.opInfluence[s] = infIn.opInfluence[s]

\* A removal from a down store of a region larger than SmallRegionThreshold
\* was charged SmallRegionThreshold, under a cap above both.
C21_Witness ==
    /\ infOut # Nil
    /\ infIn.step.IsDownStore
    /\ infIn.region.ApproximateSize > SmallRegionThreshold
    /\ infIn.cap > infIn.region.ApproximateSize
    /\ infOut.opInfluence[infIn.step.FromStore].StepCost["RemovePeer"]
          = infIn.opInfluence[infIn.step.FromStore].StepCost["RemovePeer"]
            + SmallRegionThreshold

(***************************************************************************)
(* C22.  CheckRegion never returns an operator produced by the rule        *)
(* checker (or, in legacy mode, the replica checker) while the number of   *)
(* OpReplica operators is at or above replicaScheduleLimit; in that case   *)
(* the region is put in regionWaitingList.                                 *)
(***************************************************************************)
C22AtLimit == chkIn.replicaCount >= chkIn.replicaLimit

\* The checker bound by the replica limit in this mode.
C22Checker == IF chkIn.placementRules THEN "rule" ELSE "replica"

\* That checker was asked and produced an operator.
C22Produced ==
    /\ \E i \in DOMAIN chkOut.asked : chkOut.asked[i] = C22Checker
    /\ Produced(chkIn, C22Checker) # <<>>

C22_ReplicaLimit ==
    chkOut # Nil /\ C22AtLimit =>
        /\ \A i \in DOMAIN chkOut.ops :
              chkOut.ops[i] \notin {chkIn.rule, chkIn.replica}
        /\ C22Produced => chkOut.waiting /\ C22Checker \in chkOut.limited
        /\ chkOut.waiting => C22Produced

\* In legacy mode the replica checker produced an operator at the limit:
\* nothing was returned and the region went on the waiting list.
C22_Witness ==
    /\ chkOut # Nil
    /\ ~chkIn.placementRules
    /\ chkIn.replicaCount = chkIn.replicaLimit
    /\ chkIn.replicaLimit > 0
    /\ chkIn.replica # Nil
    /\ chkOut.waiting
    /\ chkOut.ops = <<>>

(***************************************************************************)
(* getTolerantResource on its own.  Ratios are in thousandths (RatioDen),  *)
(* so a configured tolerant-size-ratio of 2.5 is 2500 and 0 is "not        *)
(* configured"; the region counts reach past leaderTolerantSizeRatio /     *)
(* adjustRatio, where the derived ratio passes 5.                          *)
(***************************************************************************)
TolClusters ==
    {[isRangeCluster |-> r,
      rangeTolerantSizeRatio |-> t[1],
      TolerantSizeRatio |-> t[2],
      AverageRegionSize |-> 2,
      stores |-> <<1, 2>>,
      storeRegionCount |-> n] :
        r \in BOOLEAN,
        t \in {<<0, 0>>, <<0, 2500>>, <<500, 0>>, <<leaderTolerantSizeRatio, 0>>,
               <<0, leaderTolerantSizeRatio>>, <<10000, 10000>>},
        n \in {<<0, 0>>, <<100, 400>>, <<1000, 3>>, <<3, 2000>>}}

TolerantResourceCalls ==
    [cluster : TolClusters, region : BalRegions, kind : ScheduleKinds]

InitTolerant ==
    /\ tolIn \in TolerantResourceCalls
    /\ tolOut = Nil
    /\ HotIdle /\ BalIdle /\ OpIdle /\ tolRestIdle

GetTolerantResource ==
    /\ tolOut = Nil
    /\ tolOut' = [resource |-> getTolerantResource(tolIn.cluster, tolIn.region, tolIn.kind)]
    /\ UNCHANGED tolIn
    /\ UNCHANGED tolOthers

NextTolerant == GetTolerantResource

SpecTolerant == InitTolerant /\ [][NextTolerant]_vars

(***************************************************************************)
(* C23.  For leader balancing by count, getTolerantResource returns the    *)
(* constant 5 (leaderTolerantSizeRatio) in every cluster state.            *)
(***************************************************************************)
C23LeaderByCount ==
    tolIn.kind.Resource = LeaderKind /\ tolIn.kind.Policy = ByCount

C23_Constant ==
    tolOut # Nil /\ C23LeaderByCount =>
        tolOut.resource = leaderTolerantSizeRatio \div RatioDen

\* With no ratio configured, the value is never taken from
\* leaderTolerantSizeRatio: it is the whole part of the ratio derived from
\* the region counts, which is 1 in a small cluster.
C23_Unconfigured ==
    /\ tolOut # Nil /\ C23LeaderByCount
    /\ ~tolIn.cluster.isRangeCluster
    /\ tolIn.cluster.TolerantSizeRatio = 0
    /\ tolIn.cluster.storeRegionCount = <<0, 0>>
    => tolOut.resource = leaderTolerantSizeRatio \div RatioDen

(***************************************************************************)
(* C24.  Each checker (learner, replica, rule, split, merge, joint-state)  *)
(* emits at most one operator for the region it inspects, so one           *)
(* CheckRegion call yields at most one operator.                           *)
(* As stated this fails: the merge checker answers with a pair of          *)
(* operators, which CheckRegion returns together.  What holds: a call      *)
(* yields at most one operator unless the operators are the merge          *)
(* checker's, and then it yields both of the pair.                         *)
(***************************************************************************)
C24_Original == chkOut # Nil => Len(chkOut.ops) <= 1

C24MergeAsked ==
    chkOut.asked # <<>> /\ chkOut.asked[Len(chkOut.asked)] = "merge"

C24_OnePerCheckerButMerge ==
    chkOut # Nil =>
        /\ ~C24MergeAsked => Len(chkOut.ops) <= 1
        /\ C24MergeAsked => chkOut.ops = chkIn.merge
        /\ Len(chkOut.ops) > 1 =>
              /\ C24MergeAsked
              /\ Len(chkOut.ops) = 2
              /\ chkOut.ops[1] # chkOut.ops[2]

\* The merge checker's pair is returned after the other checkers had nothing.
C24_Witness ==
    /\ chkOut # Nil
    /\ chkIn.rule = Nil /\ chkIn.replica = Nil
    /\ C24MergeAsked
    /\ Len(chkOut.ops) = 2

(***************************************************************************)
(* The scheduler registry.  Callers run addScheduler and removeScheduler   *)
(* concurrently; each call takes the coordinator lock, looks the name up   *)
(* in c.schedulers, acts and returns, releasing the lock.  A task is the   *)
(* goroutine of runScheduler started for a controller; Stop cancels its    *)
(* context and the task exits when it observes the cancellation.           *)
(***************************************************************************)
RegNames == {"balance-leader", "balance-region"}

RegCallers == {1, 2}

\* The most tasks started in a behaviour.
MaxRegTasks == 3

\* Mutant: the lock excludes nobody.
LockFree_Always(lock) == TRUE

\* c.Lock() returns only while nobody holds the lock.
LockFree(lock) == lock = 0

RegCallerAt(t, pc, call) ==
    regThreads[t].pc = pc /\ regThreads[t].call = call

InitRegistry ==
    /\ regLock = 0
    /\ regSchedulers = [n \in RegNames |-> 0]
    /\ regTasks = <<>>
    /\ regCfg = {}
    /\ regThreads = [t \in RegCallers |->
                        [pc |-> "idle", call |-> "", name |-> "", err |-> "", s |-> 0]]
    /\ HotIdle /\ BalIdle /\ OpIdle /\ regRestIdle

\* A caller invokes addScheduler or removeScheduler.
RegCall(t) ==
    /\ regThreads[t].pc = "idle"
    /\ \E call \in {"add", "remove"}, n \in RegNames :
          regThreads' = [regThreads EXCEPT ![t] =
              [pc |-> "lock", call |-> call, name |-> n, err |-> "", s |-> 0]]
    /\ UNCHANGED <<regLock, regSchedulers, regTasks, regCfg>>
    /\ UNCHANGED regOthers

\* c.Lock()
RegLock(t) ==
    /\ regThreads[t].pc = "lock"
    /\ LockFree(regLock)
    /\ regLock' = t
    /\ regThreads' = [regThreads EXCEPT ![t].pc = "check"]
    /\ UNCHANGED <<regSchedulers, regTasks, regCfg>>
    /\ UNCHANGED regOthers

\* addScheduler, the lookup: a registered name returns ErrSchedulerExisted.
AddSchedulerCheck(t) ==
    /\ RegCallerAt(t, "check", "add")
    /\ regThreads' = [regThreads EXCEPT ![t] =
          IF regSchedulers[@.name] # 0
          THEN [@ EXCEPT !.pc = "unlock", !.err = "SchedulerExisted"]
          ELSE [@ EXCEPT !.pc = "act"]]
    /\ UNCHANGED <<regLock, regSchedulers, regTasks, regCfg>>
    /\ UNCHANGED regOthers

\* addScheduler, the rest: Prepare, then the task is started and the
\* controller registered and the configuration extended.
AddSchedulerStart(t) ==
    /\ RegCallerAt(t, "act", "add")
    /\ Len(regTasks) < MaxRegTasks
    /\ \E prepared \in BOOLEAN :
          IF ~prepared
          THEN /\ regThreads' = [regThreads EXCEPT ![t].pc = "unlock",
                                                   ![t].err = "Prepare"]
               /\ UNCHANGED <<regSchedulers, regTasks, regCfg>>
          ELSE /\ regTasks' = Append(regTasks, [name |-> regThreads[t].name,
                                                stopped |-> FALSE, exited |-> FALSE])
               /\ regSchedulers' = [regSchedulers EXCEPT
                                       ![regThreads[t].name] = Len(regTasks) + 1]
               /\ regCfg' = regCfg \cup {regThreads[t].name}
               /\ regThreads' = [regThreads EXCEPT ![t].pc = "unlock"]
    /\ UNCHANGED regLock
    /\ UNCHANGED regOthers

\* removeScheduler, the lookup: an unknown name returns ErrSchedulerNotFound.
RemoveSchedulerCheck(t) ==
    /\ RegCallerAt(t, "check", "remove")
    /\ regThreads' = [regThreads EXCEPT ![t] =
          IF regSchedulers[@.name] = 0
          THEN [@ EXCEPT !.pc = "unlock", !.err = "SchedulerNotFound"]
          ELSE [@ EXCEPT !.pc = "act", !.s = regSchedulers[regThreads[t].name]]]
    /\ UNCHANGED <<regLock, regSchedulers, regTasks, regCfg>>
    /\ UNCHANGED regOthers

\* Mutant: the controller is stopped and deleted once its configuration
\* entry is removed, before the options are saved.
RemoveSchedulerStop_BeforePersist(t) ==
    /\ RegCallerAt(t, "act", "remove")
    /\ \E failed \in {"", "RemoveSchedulerCfg", "Persist", "RemoveScheduleConfig"} :
          /\ regCfg' = IF failed = "RemoveSchedulerCfg" THEN regCfg
                       ELSE regCfg \ {regThreads[t].name}
          /\ IF failed # "RemoveSchedulerCfg"
             THEN /\ regTasks' = [regTasks EXCEPT ![regThreads[t].s].stopped = TRUE]
                  /\ regSchedulers' = [regSchedulers EXCEPT ![regThreads[t].name] = 0]
             ELSE UNCHANGED <<regSchedulers, regTasks>>
          /\ regThreads' = [regThreads EXCEPT ![t].pc = "unlock", ![t].err = failed]
    /\ UNCHANGED regLock
    /\ UNCHANGED regOthers

\* removeScheduler, the rest: the configuration is changed and saved, each
\* step of which may fail and return; then the controller is stopped and
\* deleted from c.schedulers.
RemoveSchedulerStop(t) ==
    /\ RegCallerAt(t, "act", "remove")
    /\ \E failed \in {"", "RemoveSchedulerCfg", "Persist", "RemoveScheduleConfig"} :
          /\ regCfg' = IF failed = "RemoveSchedulerCfg" THEN regCfg
                       ELSE regCfg \ {regThreads[t].name}
          /\ IF failed = ""
             THEN /\ regTasks' = [regTasks EXCEPT ![regThreads[t].s].stopped = TRUE]
                  /\ regSchedulers' = [regSchedulers EXCEPT ![regThreads[t].name] = 0]
             ELSE UNCHANGED <<regSchedulers, regTasks>>
          /\ regThreads' = [regThreads EXCEPT ![t].pc = "unlock", ![t].err = failed]
    /\ UNCHANGED regLock
    /\ UNCHANGED regOthers

\* The deferred c.Unlock() and the return.
RegUnlock(t) ==
    /\ regThreads[t].pc = "unlock"
    /\ regLock' = 0
    /\ regThreads' = [regThreads EXCEPT ![t].pc = "idle"]
    /\ UNCHANGED <<regSchedulers, regTasks, regCfg>>
    /\ UNCHANGED regOthers

\* runScheduler returns once it sees its context cancelled.
SchedulerTaskExit(i) ==
    /\ regTasks[i].stopped /\ ~regTasks[i].exited
    /\ regTasks' = [regTasks EXCEPT ![i].exited = TRUE]
    /\ UNCHANGED <<regLock, regSchedulers, regCfg, regThreads>>
    /\ UNCHANGED regOthers

NextRegistry ==
    \/ \E t \in RegCallers : RegCall(t)
    \/ \E t \in RegCallers : RegLock(t)
    \/ \E t \in RegCallers : AddSchedulerCheck(t)
    \/ \E t \in RegCallers : AddSchedulerStart(t)
    \/ \E t \in RegCallers : RemoveSchedulerCheck(t)
    \/ \E t \in RegCallers : RemoveSchedulerStop(t)
    \/ \E t \in RegCallers : RegUnlock(t)
    \/ \E i \in DOMAIN regTasks : SchedulerTaskExit(i)

SpecRegistry == InitRegistry /\ [][NextRegistry]_vars

(***************************************************************************)
(* C25.  addScheduler with a name that is already registered returns       *)
(* SchedulerExisted and changes nothing (no new task is started, the       *)
(* registered controller is kept); under any interleaving of concurrent    *)
(* addScheduler and removeScheduler calls the registry holds at most one   *)
(* running scheduler task per name.  A running task is one that was        *)
(* started and whose controller was not stopped.                           *)
(***************************************************************************)
C25Running(n) ==
    {i \in DOMAIN regTasks : regTasks[i].name = n /\ ~regTasks[i].stopped}

C25OneRunningPerName ==
    \A n \in RegNames :
       /\ Cardinality(C25Running(n)) <= 1
       /\ C25Running(n) = IF regSchedulers[n] = 0 THEN {} ELSE {regSchedulers[n]}

\* A step of an addScheduler call that found its name registered.
C25ExistedStep ==
    \A t \in RegCallers :
       /\ regThreads[t].call = "add"
       /\ regThreads'[t] # regThreads[t]
       /\ \/ regThreads[t].pc = "check" /\ regSchedulers[regThreads[t].name] # 0
          \/ regThreads[t].pc = "unlock" /\ regThreads[t].err = "SchedulerExisted"
       => /\ regThreads'[t].err = "SchedulerExisted"
          /\ regThreads'[t].pc = IF regThreads[t].pc = "check" THEN "unlock" ELSE "idle"
          /\ UNCHANGED <<regSchedulers, regTasks, regCfg>>

C25_AddRemove == []C25OneRunningPerName /\ [][C25ExistedStep]_vars

\* A scheduler was removed and added again while its first task had not
\* exited yet, and a further addScheduler of the name was refused.
C25_Witness ==
    \E t \in RegCallers, n \in RegNames :
       /\ regThreads[t].pc = "idle" /\ regThreads[t].call = "add"
       /\ regThreads[t].name = n /\ regThreads[t].err = "SchedulerExisted"
       /\ regSchedulers[n] # 0
       /\ \E i \in DOMAIN regTasks :
             regTasks[i].name = n /\ regTasks[i].stopped /\ ~regTasks[i].exited

(***************************************************************************)
(* calcHotThresholds on its own: the store has a TopN or not, of a length  *)
(* around TopNN, whose minimum has rates around the rate at which          *)
(* HotThresholdRatio times the rate passes the minimum threshold.          *)
(***************************************************************************)
\* The rate whose HotThresholdRatio-fold is the minimum threshold m.
ThresholdRate(m) == (m * HotThresholdDen) \div HotThresholdNum

ThresholdRates(dim) ==
    UNION {{0, ThresholdRate(minHotThresholds[k][dim]) - 1,
            ThresholdRate(minHotThresholds[k][dim]),
            ThresholdRate(minHotThresholds[k][dim]) + 1} : k \in {WriteFlow, ReadFlow}}
    \cup {4 * minHotThresholds[ReadFlow][dim]}

HotThresholdCalls ==
    [kind : {WriteFlow, ReadFlow}, ok : BOOLEAN,
     len : {0, 1, TopNN - 1, TopNN, TopNN + 1},
     topNMin : [byte : ThresholdRates("byte"), key : ThresholdRates("key")]]

InitThreshold ==
    /\ thrIn \in HotThresholdCalls
    /\ thrOut = Nil
    /\ HotIdle /\ BalIdle /\ OpIdle /\ thrRestIdle

CalcHotThresholds ==
    /\ thrOut = Nil
    /\ thrOut' = calcHotThresholdsOf(thrIn.kind, thrIn.ok, thrIn.len, thrIn.topNMin)
    /\ UNCHANGED thrIn
    /\ UNCHANGED thrOthers

NextThreshold == CalcHotThresholds

SpecThreshold == InitThreshold /\ [][NextThreshold]_vars

(***************************************************************************)
(* C26.  calcHotThresholds(store) returns the flow kind's                  *)
(* minHotThresholds when the store holds fewer than 60 cached peers, and   *)
(* otherwise, per dimension, max(minThreshold, 0.8 x the rate of the       *)
(* store's top-60 minimum in that dimension); the result is never below    *)
(* minHotThresholds.  Thresholds are compared in fifths: t fifths against  *)
(* a minimum m is t against 5m, and against 0.8 x rate is t against        *)
(* 4 x rate.                                                               *)
(***************************************************************************)
C26Few == ~thrIn.ok \/ thrIn.len < 60

C26Dim(dim) ==
    LET t == thrOut[dim]
        m == 5 * minHotThresholds[thrIn.kind][dim]
        r == 4 * thrIn.topNMin[dim]
    IN /\ t >= m
       /\ C26Few => t = m
       /\ ~C26Few => t >= r /\ t \in {m, r}

C26_HotThresholds ==
    thrOut # Nil => C26Dim("byte") /\ C26Dim("key")

\* A store with exactly 60 peers whose TopN minimum lifts the byte threshold
\* above the minimum while the key threshold stays at the minimum.
C26_Witness ==
    /\ thrOut # Nil
    /\ thrIn.ok /\ thrIn.len = 60
    /\ thrOut.byte > 5 * minHotThresholds[thrIn.kind].byte
    /\ thrOut.key = 5 * minHotThresholds[thrIn.kind].key
    /\ thrIn.topNMin.key > 0

(***************************************************************************)
(* C27.  On a heartbeat, a cached write-flow entry of a store is expired   *)
(* (marked for deletion and removed by Update) exactly when the region has *)
(* no peer on that store any more, and a cached read-flow entry exactly    *)
(* when that store is no longer the region leader's store; a non-expired   *)
(* entry is never deleted for this reason.  An item deleted as expired is  *)
(* returned as it was created, without rolling statistics; an item         *)
(* deleted because it went cold carries the statistics it was judged on.   *)
(***************************************************************************)
\* The heartbeat of this step shows that the entry of store s left it.
C27Left(s) ==
    IF kind = "write" THEN \A i \in DOMAIN hb'.peers : hb'.peers[i] # s
    ELSE hb'.leader # s

C27ItemsOf(s) == {i \in DOMAIN ret' : ret'[i].StoreID = s}

C27Step ==
    now' = now + 1 =>
       \A s \in Stores :
          peersOfStore[s] # Nil =>
             /\ C27Left(s) =>
                   /\ \E i \in C27ItemsOf(s) :
                         ret'[i].needDelete /\ ret'[i].rollingKeyRate = Nil
                   /\ peersOfStore'[s] = Nil
                   /\ s \notin storesOfRegion'
             /\ ~C27Left(s) =>
                   \A i \in C27ItemsOf(s) :
                      ret'[i].needDelete => ret'[i].rollingKeyRate # Nil

C27_Expired == [][C27Step]_vars

\* Read flow: the leader moved from a store that still holds a peer, the
\* entry of that store was deleted as expired, and the new leader's store
\* has an entry.
C27_Witness ==
    /\ kind = "read"
    /\ hb # Nil
    /\ \E s \in Stores :
          /\ \E i \in DOMAIN hb.peers : hb.peers[i] = s
          /\ hb.leader # s
          /\ peersOfStore[s] = Nil
          /\ \E i \in DOMAIN ret :
                ret[i].StoreID = s /\ ret[i].needDelete /\ ret[i].rollingKeyRate = Nil
          /\ peersOfStore[hb.leader] # Nil

(***************************************************************************)
(* fixRulePeer.  A rule fit is [Rule, Peers, PeersWithDifferentRole]; a    *)
(* peer is [Id, StoreId, IsLearner]; the region has its peers in order,    *)
(* its leader and its down-peer list.  The store selection of addRulePeer, *)
(* replaceRulePeer and fixBetterLocation and the store checks of           *)
(* allowLeader are answers given with the call.  The result names the      *)
(* repair the fit was handed to, the peer and status it was handed with,   *)
(* and the operator and error it returned.                                 *)
(***************************************************************************)
\* The most peers a rule asks for.
MaxRuleCount == 2

FixResult(call, peer, status, op, err) ==
    [call |-> call, peer |-> peer, status |-> status, op |-> op, err |-> err]

addRulePeer(c, rf) ==
    IF c.storeFound
    THEN FixResult("addRulePeer", 0, "", [desc |-> "add-rule-peer"], "")
    ELSE FixResult("addRulePeer", 0, "", Nil, "no store to add peer")

replaceRulePeer(c, rf, peer, status) ==
    IF c.storeFound
    THEN FixResult("replaceRulePeer", peer.Id, status,
                   [desc |-> "replace-rule-" \o status \o "-peer"], "")
    ELSE FixResult("replaceRulePeer", peer.Id, status, Nil, "no store to replace peer")

fixBetterLocation(c, rf) ==
    IF c.storeFound
    THEN FixResult("fixBetterLocation", 0, "", [desc |-> "move-to-better-location"], "")
    ELSE FixResult("fixBetterLocation", 0, "", Nil, "")

\* placement.MatchLabelConstraints: the store's zone is one the rule admits;
\* a rule without constraints admits every store.
MatchLabelConstraints(store, constraints) ==
    constraints = {} \/ store.Zone \in constraints

\* operator.CreateTransferLeaderOperator: the operator, or the builder's error.
CreateTransferLeaderOperator(c, desc, peer, sourceStoreID, targetStoreID) ==
    IF c.created
    THEN FixResult("fixLooseMatchPeer", peer.Id, "",
                   [desc |-> desc, from |-> sourceStoreID, to |-> targetStoreID], "")
    ELSE FixResult("fixLooseMatchPeer", peer.Id, "", Nil, "cannot build operator")

\* Mutant: the store may match the label constraints of a rule of any role.
allowLeader_AnyRule(c, peer) ==
    IF peer.IsLearner THEN FALSE
    ELSE LET s == GetStore(c.cluster, peer.StoreId) IN
         IF s = Nil THEN FALSE
         ELSE IF ~c.leaderAllowed[peer.Id] THEN FALSE
         ELSE \E i \in DOMAIN c.fit.RuleFits :
                 MatchLabelConstraints(s, c.fit.RuleFits[i].Rule.LabelConstraints)

\* c.leaderAllowed[id]: the store of peer id passes the StoreStateFilter for
\* a leader transfer.
allowLeader(c, peer) ==
    IF peer.IsLearner THEN FALSE
    ELSE LET s == GetStore(c.cluster, peer.StoreId) IN
         IF s = Nil THEN FALSE
         ELSE IF ~c.leaderAllowed[peer.Id] THEN FALSE
         ELSE \E i \in DOMAIN c.fit.RuleFits :
                 /\ c.fit.RuleFits[i].Rule.Role \in {"leader", "voter"}
                 /\ MatchLabelConstraints(s, c.fit.RuleFits[i].Rule.LabelConstraints)

\* The first peer of the region, from position k, that may be the leader
\* (0 when there is none).
RECURSIVE firstAllowedLeader(_, _)
firstAllowedLeader(c, k) ==
    IF k > Len(c.region.Peers) THEN 0
    ELSE IF allowLeader(c, c.region.Peers[k]) THEN k
    ELSE firstAllowedLeader(c, k + 1)

\* The store of the region's leader.
LeaderStoreId(region) ==
    region.Peers[CHOOSE i \in DOMAIN region.Peers : region.Peers[i].Id = region.Leader].StoreId

fixLooseMatchPeer(c, rf, peer) ==
    IF peer.IsLearner /\ rf.Rule.Role # "learner"
    THEN FixResult("fixLooseMatchPeer", peer.Id, "", [desc |-> "fix-peer-role"], "")
    ELSE IF c.region.Leader # peer.Id /\ rf.Rule.Role = "leader"
    THEN IF allowLeader(c, peer)
         THEN CreateTransferLeaderOperator(c, "fix-leader-role", peer,
                                           LeaderStoreId(c.region), peer.StoreId)
         ELSE FixResult("fixLooseMatchPeer", peer.Id, "", Nil, "peer cannot be leader")
    ELSE IF c.region.Leader = peer.Id /\ rf.Rule.Role = "follower"
    THEN LET k == firstAllowedLeader(c, 1)
         IN IF k # 0
            THEN CreateTransferLeaderOperator(c, "fix-follower-role", peer,
                                              peer.StoreId, c.region.Peers[k].StoreId)
            ELSE FixResult("fixLooseMatchPeer", peer.Id, "", Nil, "no new leader")
    ELSE FixResult("fixLooseMatchPeer", peer.Id, "", Nil, "")

RECURSIVE fixLooseFrom(_, _, _)
\* The loop over rf.PeersWithDifferentRole from position k, then
\* fixBetterLocation.
fixLooseFrom(c, rf, k) ==
    IF k > Len(rf.PeersWithDifferentRole) THEN fixBetterLocation(c, rf)
    ELSE LET r == fixLooseMatchPeer(c, rf, rf.PeersWithDifferentRole[k])
         IN IF r.err # "" \/ r.op # Nil THEN r ELSE fixLooseFrom(c, rf, k + 1)

RECURSIVE fixDownFrom(_, _, _)
\* The loop over rf.Peers from position k, then the loosely matched peers.
fixDownFrom(c, rf, k) ==
    IF k > Len(rf.Peers) THEN fixLooseFrom(c, rf, 1)
    ELSE IF isDownPeer(c.cluster, c.region, rf.Peers[k])
    THEN replaceRulePeer(c, rf, rf.Peers[k], "down")
    ELSE IF isOfflinePeer(c.cluster, c.region, rf.Peers[k])
    THEN replaceRulePeer(c, rf, rf.Peers[k], "offline")
    ELSE fixDownFrom(c, rf, k + 1)

\* Mutant: down and offline peers are replaced before peers are made up.
fixRulePeer_ReplaceFirst(c, rf) ==
    LET r == fixDownFrom(c, [rf EXCEPT !.PeersWithDifferentRole = <<>>], 1)
    IN IF r.call = "replaceRulePeer" THEN r
       ELSE IF Len(rf.Peers) < rf.Rule.Count THEN addRulePeer(c, rf)
       ELSE fixDownFrom(c, rf, 1)

fixRulePeer(c, rf) ==
    IF Len(rf.Peers) < rf.Rule.Count THEN addRulePeer(c, rf)
    ELSE fixDownFrom(c, rf, 1)

(***************************************************************************)
(* The calls enumerated: two peers on stores that are up, long down or     *)
(* offline.  A peer is loosely matched when its role differs from the      *)
(* rule's and scheduling can turn it into the rule's: a learner under a    *)
(* rule of another role, a peer that is not the leader under a leader      *)
(* rule, the leader under a follower rule.                                 *)
(***************************************************************************)
FixPeer(i, learners) == [Id |-> i, StoreId |-> 10 * i, IsLearner |-> i \in learners]

FixPeerLists == {<<>>, <<1>>, <<2>>, <<1, 2>>, <<2, 1>>}

FixStores ==
    {[DownTime |-> 0, State |-> "Up"], [DownTime |-> 1, State |-> "Up"],
     [DownTime |-> 0, State |-> "Offline"]}

LooselyMatched(peer, leader, role) ==
    \/ peer.IsLearner /\ role # "learner"
    \/ ~peer.IsLearner /\ peer.Id # leader /\ role = "leader"
    \/ peer.Id = leader /\ role = "follower"

FixRuleFit(count, role, ps, loose, learners) ==
    [Rule |-> [Count |-> count, Role |-> role, LabelConstraints |-> {}],
     Peers |-> [k \in DOMAIN ps |-> FixPeer(ps[k], learners)],
     PeersWithDifferentRole |-> [k \in DOMAIN loose |-> FixPeer(loose[k], learners)]]

\* The fit holds the rule fit under repair and a voter rule.
FixRulePeerInputs ==
    {[cluster |-> [stores |-> st, maxStoreDownTime |-> 1],
      region |-> [Peers |-> <<FixPeer(1, learners), FixPeer(2, learners)>>,
                  Leader |-> leader,
                  DownPeers |-> [k \in DOMAIN down |->
                                    [Peer |-> FixPeer(down[k], learners), DownSeconds |-> 1]]],
      rf |-> FixRuleFit(count, role, ps, loose, learners),
      fit |-> [RuleFits |-> <<FixRuleFit(count, role, ps, loose, learners),
                              FixRuleFit(1, "voter", <<>>, <<>>, learners)>>],
      storeFound |-> found,
      leaderAllowed |-> allowed,
      created |-> TRUE] :
        st \in [{10, 20} -> FixStores],
        learners \in {{}, {2}},
        leader \in {1},
        down \in {<<>>, <<1>>, <<2>>},
        count \in 1..MaxRuleCount,
        role \in {"voter", "leader", "follower", "learner"},
        ps \in FixPeerLists,
        loose \in FixPeerLists,
        found \in BOOLEAN,
        allowed \in {[i \in 1..2 |-> FALSE], [i \in 1..2 |-> i = 2]}}

\* The loosely matched peers are peers of the fit, loosely matched.
FixRulePeerCalls ==
    {c \in FixRulePeerInputs :
        \A k \in DOMAIN c.rf.PeersWithDifferentRole :
           /\ \E j \in DOMAIN c.rf.Peers : c.rf.Peers[j] = c.rf.PeersWithDifferentRole[k]
           /\ LooselyMatched(c.rf.PeersWithDifferentRole[k], c.region.Leader, c.rf.Rule.Role)}

InitFixRule ==
    /\ fixIn \in FixRulePeerCalls
    /\ fixOut = Nil
    /\ HotIdle /\ BalIdle /\ OpIdle /\ fixRestIdle

FixRulePeer ==
    /\ fixOut = Nil
    /\ fixOut' = fixRulePeer(fixIn, fixIn.rf)
    /\ UNCHANGED fixIn
    /\ UNCHANGED fixOthers

NextFixRule == FixRulePeer

SpecFixRule == InitFixRule /\ [][NextFixRule]_vars

(***************************************************************************)
(* C28.  fixRulePeer acts on exactly the first applicable case, in this    *)
(* order: fewer peers than the rule's count -> addRulePeer; a down or      *)
(* offline peer of the fit -> replaceRulePeer; a loosely matched role ->   *)
(* promote learner or transfer leader; otherwise fixBetterLocation.  A     *)
(* later case is never acted on while an earlier one applies.              *)
(***************************************************************************)
C28Under == Len(fixIn.rf.Peers) < fixIn.rf.Rule.Count

C28Down(k) == isDownPeer(fixIn.cluster, fixIn.region, fixIn.rf.Peers[k])

C28Offline(k) == isOfflinePeer(fixIn.cluster, fixIn.region, fixIn.rf.Peers[k])

C28Bad == {k \in DOMAIN fixIn.rf.Peers : C28Down(k) \/ C28Offline(k)}

C28Loose == fixIn.rf.PeersWithDifferentRole # <<>>

C28_FirstCase ==
    fixOut # Nil =>
        /\ C28Under => fixOut.call = "addRulePeer"
        /\ ~C28Under /\ C28Bad # {} =>
              /\ fixOut.call = "replaceRulePeer"
              /\ \E k \in C28Bad :
                    /\ \A j \in C28Bad : k <= j
                    /\ fixOut.peer = fixIn.rf.Peers[k].Id
                    /\ fixOut.status = IF C28Down(k) THEN "down" ELSE "offline"
        /\ ~C28Under /\ C28Bad = {} /\ C28Loose =>
              /\ fixOut.call = "fixLooseMatchPeer"
              /\ fixOut.peer = fixIn.rf.PeersWithDifferentRole[1].Id
              /\ \/ /\ fixOut.op # Nil
                    /\ fixOut.op.desc \in {"fix-peer-role", "fix-leader-role",
                                           "fix-follower-role"}
                 \/ fixOut.op = Nil /\ fixOut.err # ""
        /\ ~C28Under /\ C28Bad = {} /\ ~C28Loose => fixOut.call = "fixBetterLocation"

\* The fit has its peers, the second of which is offline behind a healthy
\* first, and a loosely matched peer as well: the offline peer is replaced.
C28_Witness ==
    /\ fixOut # Nil
    /\ ~C28Under
    /\ C28Bad = {2}
    /\ C28Loose
    /\ fixOut.call = "replaceRulePeer" /\ fixOut.status = "offline"
    /\ fixOut.op # Nil

\* No earlier case applies and a loosely matched learner is promoted.
C28_WitnessLoose ==
    /\ fixOut # Nil
    /\ ~C28Under /\ C28Bad = {} /\ C28Loose
    /\ fixOut.op = [desc |-> "fix-peer-role"]

(***************************************************************************)
(* The hot-peer cache with a region that moves among three stores: the     *)
(* heartbeats report a hot byte rate or no flow, over 30 or 60 seconds,    *)
(* and the region's peers may sit on any of the stores.                    *)
(***************************************************************************)
\* Number of region heartbeats in one behaviour of the moving region.
MaxWideBeats == 2

WidePeerLists == {<<1>>, <<2>>, <<3>>, <<1, 2>>, <<1, 3>>, <<2, 3>>, <<1, 2, 3>>}

WideRegions ==
    {[peers |-> p, leader |-> l,
      BytesWritten |-> IF kind = WriteFlow THEN b ELSE 0,
      KeysWritten |-> 0,
      BytesRead |-> IF kind = ReadFlow THEN b ELSE 0,
      KeysRead |-> 0,
      interval |-> d] :
        p \in WidePeerLists, l \in Stores, b \in {0, HotBytes}, d \in {30, 60}}

InitWide ==
    /\ kind \in {WriteFlow, ReadFlow}
    /\ topNOthers = [s \in Stores |-> 0]
    /\ peersOfStore = [s \in Stores |-> Nil]
    /\ storesOfRegion = {}
    /\ now = 0
    /\ hb = Nil
    /\ ret = <<>>
    /\ oldOf = [s \in Stores |-> 0]
    /\ hotRun = [s \in Stores |-> 0]
    /\ rawRun = [s \in Stores |-> 0]
    /\ BalIdle /\ OpIdle /\ RestIdle

\* One heartbeat of the moving region: CheckRegionFlow, then Update of every
\* returned item.
WideHeartbeat ==
    /\ now < MaxWideBeats
    /\ \E region \in WideRegions, order \in Orders(storesOfRegion) :
          /\ region.leader \in Range(region.peers)
          /\ LET out == CheckRegionFlow(region, order, now + 1)
                 c == UpdateAll([peers |-> peersOfStore, stores |-> storesOfRegion], out.ret, 1)
             IN /\ peersOfStore' = c.peers
                /\ storesOfRegion' = c.stores
                /\ ret' = out.ret
                /\ oldOf' = out.used
                /\ hb' = region
                /\ now' = now + 1
                /\ hotRun' = [s \in Stores |-> nextHotRun(s, region)]
                /\ rawRun' = [s \in Stores |-> nextRawRun(s, region)]
    /\ UNCHANGED <<kind, topNOthers>>
    /\ UNCHANGED hotOthers

NextWide == WideHeartbeat

SpecWide == InitWide /\ [][NextWide]_vars

(***************************************************************************)
(* C29.  When a heartbeat shows that a cached hot peer left its store      *)
(* (write flow: peer moved; read flow: leader transferred) and a store of  *)
(* the region has no entry yet, the item created for that store inherits   *)
(* the expired entry's HotDegree, AntiCount and rolling statistics         *)
(* provided the expired entry's AntiCount > 0; the expired entry is        *)
(* deleted, and one expired entry is inherited by at most one store.       *)
(* Inheriting is being built on the expired entry as old item: the counts  *)
(* and the statistics are the entry's, taken through this heartbeat's      *)
(* update.                                                                 *)
(***************************************************************************)
\* The stores whose entry the heartbeat of this step shows as left.
C29Expired == {e \in Stores : peersOfStore[e] # Nil /\ ~Tracked(e, hb')}

\* The stores of the region that have no entry yet.
C29New == {s \in Stores : peersOfStore[s] = Nil /\ Tracked(s, hb')}

C29Inheritors ==
    {s \in Stores : RetOf(ret', s) # Nil /\ RetOf(ret', s).source = "inherit"}

\* The item of s carries what the entry of e had, updated by the report.
C29Carries(s, e) ==
    LET it == RetOf(ret', s)
        old == peersOfStore[e]
        byte == dimAdd(old.rollingByteRate, getRegionBytes(hb'), hb'.interval)
        key == dimAdd(old.rollingKeyRate, getRegionKeys(hb'), hb'.interval)
    IN IF it.justTransferLeader
       THEN /\ it.HotDegree = old.HotDegree
            /\ it.AntiCount = old.AntiCount
            /\ it.rollingByteRate = old.rollingByteRate
            /\ it.rollingKeyRate = old.rollingKeyRate
       ELSE /\ it.rollingByteRate \in {byte, dimClearLastAverage(byte)}
            /\ it.rollingKeyRate \in {key, dimClearLastAverage(key)}
            /\ ~dimIsFull(key) =>
                  it.HotDegree = old.HotDegree /\ it.AntiCount = old.AntiCount
            /\ dimIsFull(key) =>
                  \/ it.needDelete
                  \/ /\ it.HotDegree \in {old.HotDegree + 1, old.HotDegree - 1, 1}
                     /\ it.AntiCount \in {2, old.AntiCount - 1}

C29Step ==
    now' = now + 1 =>
       /\ \A s \in C29Inheritors :
             /\ s \in C29New
             /\ oldOf'[s] \in C29Expired
             /\ peersOfStore[oldOf'[s]].AntiCount > 0
             /\ C29Carries(s, oldOf'[s])
             /\ RetOf(ret', s).needDelete \/ peersOfStore'[s] = RetOf(ret', s)
       /\ \A s \in Stores \ C29Inheritors :
             RetOf(ret', s) # Nil /\ peersOfStore[s] = Nil /\ oldOf'[s] # 0 =>
                RetOf(ret', s).source = "adopt"
       /\ Cardinality(C29Inheritors) <= 1
       /\ \A e \in C29Expired : peersOfStore'[e] = Nil /\ e \notin storesOfRegion'
       /\ (/\ C29Expired # {}
           /\ \A e \in C29Expired : peersOfStore[e].AntiCount > 0
           /\ C29New # {}
           /\ hb'.interval >= 3) => C29Inheritors # {}

C29_Inherit == [][C29Step]_vars

\* Write flow: the peer left its store for two stores that had none; one of
\* them inherited the entry and moved on from its HotDegree, the other did
\* not inherit, and the entry is gone.
C29_Witness ==
    /\ kind = "write"
    /\ hb # Nil
    /\ Len(hb.peers) = 2
    /\ \E s \in Stores, o \in Stores :
          /\ s # o
          /\ peersOfStore[s] # Nil /\ peersOfStore[s].source = "inherit"
          /\ peersOfStore[s].HotDegree = 2
          /\ oldOf[s] \notin {0, s, o}
          /\ peersOfStore[oldOf[s]] = Nil
          /\ peersOfStore[o] # Nil /\ peersOfStore[o].source # "inherit"

\* Read flow: the leader was transferred and the new leader's store
\* inherited the entry of the old one.
C29_WitnessRead ==
    /\ kind = "read"
    /\ hb # Nil
    /\ peersOfStore[hb.leader] # Nil
    /\ peersOfStore[hb.leader].source = "inherit"
    /\ oldOf[hb.leader] \notin {0, hb.leader}
    /\ peersOfStore[oldOf[hb.leader]] = Nil

(***************************************************************************)
(* C30.  A new item with no old item of its own and no inheritable tmpItem *)
(* takes over statistics from another store's entry of the same region     *)
(* only if that entry has allowAdopt set; it then works on a clone of that *)
(* entry's rolling statistics and never shares the rolling-statistics      *)
(* object with it; when no sibling entry allows adoption, the item is      *)
(* handled as having no old item.                                          *)
(***************************************************************************)
\* The stores whose item has neither an entry of its own nor an inherited one.
C30Fresh ==
    {s \in Stores : /\ RetOf(ret', s) # Nil
                    /\ peersOfStore[s] = Nil
                    /\ RetOf(ret', s).source # "inherit"}

\* The rolling statistics of the entry of o when a later store of this
\* heartbeat looks at it: after the update of o's own item, or of the item
\* that inherited the entry, both of which work on the entry's object.
C30Object(o) ==
    LET heirs == {h \in C29Inheritors : oldOf'[h] = o}
        user == IF Tracked(o, hb') THEN RetOf(ret', o)
                ELSE IF heirs # {} THEN RetOf(ret', CHOOSE h \in heirs : TRUE)
                ELSE peersOfStore[o]
    IN [byte |-> user.rollingByteRate, key |-> user.rollingKeyRate]

\* The item of s works on a copy of the statistics of the entry of o.
C30OnClone(s, o) ==
    LET it == RetOf(ret', s)
        byte == dimAdd(C30Object(o).byte, getRegionBytes(hb'), hb'.interval)
        key == dimAdd(C30Object(o).key, getRegionKeys(hb'), hb'.interval)
    IN IF it.justTransferLeader
       THEN /\ it.rollingByteRate = C30Object(o).byte
            /\ it.rollingKeyRate = C30Object(o).key
       ELSE /\ it.rollingByteRate \in {byte, dimClearLastAverage(byte)}
            /\ it.rollingKeyRate \in {key, dimClearLastAverage(key)}

\* The item of s starts statistics of its own.
C30NoOldItem(s) ==
    LET it == RetOf(ret', s)
        byte == dimAdd(newDimStat("byte"), getRegionBytes(hb'), hb'.interval)
        key == dimAdd(newDimStat("key"), getRegionKeys(hb'), hb'.interval)
    IN /\ oldOf'[s] = 0
       /\ it.isNew
       /\ it.rollingByteRate \in {byte, dimClearLastAverage(byte)}
       /\ it.rollingKeyRate \in {key, dimClearLastAverage(key)}
       /\ it.HotDegree \in {0, 1}

C30Adoptable == {o \in Stores : peersOfStore[o] # Nil /\ peersOfStore[o].allowAdopt}

C30Step ==
    now' = now + 1 =>
       /\ \A s \in C30Fresh :
             IF C30Adoptable # {}
             THEN /\ RetOf(ret', s).source = "adopt"
                  /\ oldOf'[s] \in C30Adoptable
                  /\ C30OnClone(s, oldOf'[s])
             ELSE /\ RetOf(ret', s).source # "adopt"
                  /\ C30NoOldItem(s)
       \* The adopters of one entry start from the same statistics: none of
       \* them sees the sample another has added to its copy.
       /\ \A s \in C30Fresh, q \in C30Fresh :
             oldOf'[s] # 0 /\ oldOf'[s] = oldOf'[q] =>
                /\ RetOf(ret', s).rollingByteRate = RetOf(ret', q).rollingByteRate
                /\ RetOf(ret', s).rollingKeyRate = RetOf(ret', q).rollingKeyRate
       \* The entry adopted from is as its own update left it.
       /\ \A s \in C30Fresh :
             oldOf'[s] # 0 /\ Tracked(oldOf'[s], hb') /\ ~RetOf(ret', oldOf'[s]).needDelete =>
                peersOfStore'[oldOf'[s]] = RetOf(ret', oldOf'[s])

C30_Adopt == [][C30Step]_vars

\* A store without an entry adopted the statistics of a sibling entry that
\* stays cached, and both entries are kept.
C30_Witness ==
    \E s \in Stores :
       /\ peersOfStore[s] # Nil /\ peersOfStore[s].source = "adopt"
       /\ oldOf[s] \notin {0, s}
       /\ peersOfStore[oldOf[s]] # Nil
       /\ peersOfStore[oldOf[s]].allowAdopt
       /\ peersOfStore[s].HotDegree >= 1

\* A sibling entry that does not allow adoption is cached, and the store got
\* an item that started statistics of its own.
C30_WitnessNoAdoption ==
    \E s \in Stores, o \in Stores :
       /\ s # o
       /\ peersOfStore[s] # Nil /\ peersOfStore[s].isNew /\ oldOf[s] = 0
       /\ peersOfStore[o] # Nil /\ ~peersOfStore[o].isNew /\ ~peersOfStore[o].allowAdopt

(***************************************************************************)
(* RuleChecker.Check.  The fit has its rule fits in order and its orphan   *)
(* peers; the store selection of addRulePeer, replaceRulePeer and          *)
(* fixBetterLocation is an answer given for each rule fit, and the split   *)
(* keys of the rule manager are an answer of the call.  The result is the  *)
(* operator returned, the position of the rule fit that built it (0 when   *)
(* it was built for no rule fit) and the positions of the rule fits whose  *)
(* failure was logged.                                                     *)
(***************************************************************************)
\* The most rule fits of a region.
MaxRuleFits == 2

RuleCheckResult(op, rule, failed) == [op |-> op, rule |-> rule, failed |-> failed]

fixRange(c) ==
    IF c.splitKeys = 0 THEN Nil ELSE [desc |-> "rule-split-region"]

\* The call of fixRulePeer on the rule fit at position k.
fixRulePeerAt(c, k) ==
    fixRulePeer([c EXCEPT !.storeFound = c.storeFound[k]], c.fit.RuleFits[k])

\* The region as fixOrphanPeers reads it: the ids of its pending and of its
\* down peers.
OrphanView(region) ==
    [PendingPeers |-> region.PendingPeers,
     DownPeers |-> {region.DownPeers[i].Peer.Id : i \in DOMAIN region.DownPeers}]

RECURSIVE checkRuleFits_AbortsOnError(_, _, _)
\* Mutant: the first failure ends the loop.
checkRuleFits_AbortsOnError(c, k, failed) ==
    IF k > Len(c.fit.RuleFits) THEN RuleCheckResult(Nil, 0, failed)
    ELSE LET r == fixRulePeerAt(c, k)
         IN IF r.err # "" THEN RuleCheckResult(Nil, 0, Append(failed, k))
            ELSE IF r.op # Nil THEN RuleCheckResult(r.op, k, failed)
            ELSE checkRuleFits_AbortsOnError(c, k + 1, failed)

RECURSIVE checkRuleFits(_, _, _)
\* The loop over fit.RuleFits from position k.
checkRuleFits(c, k, failed) ==
    IF k > Len(c.fit.RuleFits) THEN RuleCheckResult(Nil, 0, failed)
    ELSE LET r == fixRulePeerAt(c, k)
         IN IF r.err # "" THEN checkRuleFits(c, k + 1, Append(failed, k))
            ELSE IF r.op # Nil THEN RuleCheckResult(r.op, k, failed)
            ELSE checkRuleFits(c, k + 1, failed)

RuleCheck(c) ==
    IF Len(c.fit.RuleFits) = 0 THEN RuleCheckResult(fixRange(c), 0, <<>>)
    ELSE LET op == fixOrphanPeers(OrphanView(c.region), c.fit)
         IN IF op # Nil THEN RuleCheckResult(op, 0, <<>>)
            ELSE checkRuleFits(c, 1, <<>>)

\* The rule fits enumerated: a voter rule of one or two peers that selected
\* the first peer, the second peer or both.
CheckRuleFits ==
    {[Rule |-> [Count |-> count, Role |-> "voter"],
      Peers |-> [k \in DOMAIN ps |-> FixPeer(ps[k], {})],
      PeersWithDifferentRole |-> <<>>,
      IsSatisfied |-> Len(ps) >= count] :
        count \in 1..MaxRuleCount, ps \in {<<1>>, <<2>>, <<1, 2>>}}

CheckRuleFitLists ==
    UNION {[1..n -> CheckRuleFits] : n \in 0..MaxRuleFits}

RuleCheckCalls ==
    {[cluster |-> [stores |-> st, maxStoreDownTime |-> 1],
      region |-> [Peers |-> <<FixPeer(1, {}), FixPeer(2, {}), FixPeer(3, {})>>,
                  Leader |-> 1,
                  DownPeers |-> <<>>,
                  PendingPeers |-> {}],
      fit |-> [RuleFits |-> rfs, OrphanPeers |-> orphans],
      storeFound |-> found,
      leaderAllowed |-> [i \in 1..3 |-> TRUE],
      splitKeys |-> keys] :
        st \in {[s \in {10, 20, 30} |-> [DownTime |-> 0, State |-> IF s \in off THEN "Offline" ELSE "Up"]] :
                   off \in {{}, {20}}},
        rfs \in CheckRuleFitLists,
        orphans \in {<<>>, <<FixPeer(3, {})>>},
        found \in [1..MaxRuleFits -> BOOLEAN],
        keys \in 0..1}

InitRuleCheck ==
    /\ rckIn \in RuleCheckCalls
    /\ rckOut = Nil
    /\ HotIdle /\ BalIdle /\ OpIdle /\ rckRestIdle

CallRuleCheck ==
    /\ rckOut = Nil
    /\ rckOut' = RuleCheck(rckIn)
    /\ UNCHANGED rckIn
    /\ UNCHANGED rckOthers

NextRuleCheck == CallRuleCheck

SpecRuleCheck == InitRuleCheck /\ [][NextRuleCheck]_vars

(***************************************************************************)
(* C31.  A failure while fixing one RuleFit (no store to add or replace a  *)
(* peer) does not abort RuleChecker.Check: the checker continues with the  *)
(* next RuleFit, and the operator of the first RuleFit that yields one is  *)
(* returned.                                                               *)
(***************************************************************************)
\* Check went into the loop over the rule fits.
C31Looped ==
    /\ Len(rckIn.fit.RuleFits) > 0
    /\ fixOrphanPeers(OrphanView(rckIn.region), rckIn.fit) = Nil

C31Yields == {k \in DOMAIN rckIn.fit.RuleFits : fixRulePeerAt(rckIn, k).op # Nil}

C31Fails == {k \in DOMAIN rckIn.fit.RuleFits : fixRulePeerAt(rckIn, k).err # ""}

C31_ContinuesAfterFailure ==
    rckOut # Nil /\ C31Looped =>
        /\ C31Yields = {} =>
              /\ rckOut.op = Nil
              /\ {rckOut.failed[i] : i \in DOMAIN rckOut.failed} = C31Fails
        /\ \A k \in C31Yields :
              (\A j \in C31Yields : k <= j) =>
                  /\ rckOut.op = fixRulePeerAt(rckIn, k).op
                  /\ rckOut.rule = k
                  /\ {rckOut.failed[i] : i \in DOMAIN rckOut.failed} =
                        {j \in C31Fails : j < k}

\* The first rule fit found no store to add its peer, the second had its
\* offline peer replaced: that operator was returned.
C31_Witness ==
    /\ rckOut # Nil
    /\ C31Looped
    /\ fixRulePeerAt(rckIn, 1).err = "no store to add peer"
    /\ rckOut.failed = <<1>>
    /\ rckOut.rule = 2
    /\ rckOut.op = [desc |-> "replace-rule-offline-peer"]

(***************************************************************************)
(* One operator step asked about one region snapshot: CheckSafety,         *)
(* IsFinish and ConfVerChanged are called on the same snapshot, in any     *)
(* order, and an operator made of that one step is polled with it.  A      *)
(* snapshot may have no leader (leader 0, what GetLeader().GetStoreId()    *)
(* gives for a nil leader).                                                *)
(***************************************************************************)
TransferLeaderConfVerChanged(tl, region) == FALSE

AddPeerConfVerChanged(ap, region) ==
    LET p == GetStoreVoter(region, ap.ToStore)
    IN IF p # Nil THEN p.Id = ap.PeerID ELSE FALSE

AddLearnerConfVerChanged(al, region) ==
    LET p == GetStorePeerOf(region, al.ToStore)
    IN IF p # Nil THEN p.Id = al.PeerID ELSE FALSE

PromoteLearnerConfVerChanged(pl, region) ==
    LET p == GetStoreVoter(region, pl.ToStore)
    IN IF p # Nil THEN p.Id = pl.PeerID ELSE FALSE

RemovePeerConfVerChanged(rp, region) == GetStorePeerOf(region, rp.FromStore) = Nil

\* OpStep.ConfVerChanged, by the step's type.
ConfVerChanged(step, region) ==
    CASE step.type = "TransferLeader" -> TransferLeaderConfVerChanged(step, region)
      [] step.type = "AddPeer" -> AddPeerConfVerChanged(step, region)
      [] step.type = "AddLearner" -> AddLearnerConfVerChanged(step, region)
      [] step.type = "PromoteLearner" -> PromoteLearnerConfVerChanged(step, region)
      [] step.type = "RemovePeer" -> RemovePeerConfVerChanged(step, region)

\* The peers a store may hold: none, peer 10s+3 as a voter or as a learner,
\* or another voter 10s+4.
StepPeers(s) ==
    {Nil, [Id |-> 10 * s + 3, IsLearner |-> FALSE], [Id |-> 10 * s + 3, IsLearner |-> TRUE],
     [Id |-> 10 * s + 4, IsLearner |-> FALSE]}

StepSnapshots ==
    {[leader |-> l, peers |-> <<p1, p2, p3>>, pending |-> pd] :
        l \in {0} \cup OpStores,
        p1 \in StepPeers(1), p2 \in StepPeers(2), p3 \in StepPeers(3),
        pd \in {{}, {10 * s + 3 : s \in OpStores}}}

\* The leader, when there is one, is a voter of the region.
StepSnapshotIsValid(region) ==
    region.leader # 0 => GetStoreVoter(region, region.leader) # Nil

StepSteps ==
    UNION {{TransferLeaderStep(1, s), AddPeerStep(s, 10 * s + 3), AddLearnerStep(s, 10 * s + 3),
            PromoteLearnerStep(s, 10 * s + 3), RemovePeerStep(s)} : s \in OpStores}

StepCalls ==
    {c \in [step : StepSteps, region : StepSnapshots] : StepSnapshotIsValid(c.region)}

StepNotCalled == [safety |-> Nil, finish |-> Nil, confVer |-> Nil, op |-> Nil]

InitStep ==
    /\ stepIn \in StepCalls
    /\ stepOut = StepNotCalled
    /\ HotIdle /\ BalIdle /\ OpIdle /\ stepRestIdle

StepCheckSafety ==
    /\ stepOut.safety = Nil
    /\ stepOut' = [stepOut EXCEPT !.safety = [err |-> CheckSafety(stepIn.step, stepIn.region)]]
    /\ UNCHANGED stepIn
    /\ UNCHANGED stepOthers

StepIsFinish ==
    /\ stepOut.finish = Nil
    /\ stepOut' = [stepOut EXCEPT !.finish = [is |-> IsFinish(stepIn.step, stepIn.region)]]
    /\ UNCHANGED stepIn
    /\ UNCHANGED stepOthers

StepConfVerChanged ==
    /\ stepOut.confVer = Nil
    /\ stepOut' = [stepOut EXCEPT !.confVer = [is |-> ConfVerChanged(stepIn.step, stepIn.region)]]
    /\ UNCHANGED stepIn
    /\ UNCHANGED stepOthers

\* A running operator whose only step is this one is polled with the snapshot.
StepPoll ==
    /\ stepOut.op = Nil
    /\ stepOut' = [stepOut EXCEPT !.op =
                      Check([NewOperator(1, 1, <<stepIn.step>>) EXCEPT !.status = "STARTED"],
                            stepIn.region, 1)]
    /\ UNCHANGED stepIn
    /\ UNCHANGED stepOthers

NextStep ==
    \/ StepCheckSafety
    \/ StepIsFinish
    \/ StepConfVerChanged
    \/ StepPoll

SpecStep == InitStep /\ [][NextStep]_vars

(***************************************************************************)
(* C32.  RemovePeer.CheckSafety returns an error exactly when FromStore is *)
(* the store of the region's current leader, so a remove-peer step whose   *)
(* target became the leader is cancelled instead of executed.              *)
(***************************************************************************)
C32OnLeader ==
    /\ stepIn.step.type = "RemovePeer"
    /\ stepIn.region.leader # 0
    /\ GetStorePeerOf(stepIn.region, stepIn.region.leader) # Nil
    /\ stepIn.step.FromStore = stepIn.region.leader

C32_CannotRemoveLeader ==
    stepIn.step.type = "RemovePeer" =>
        /\ stepOut.safety # Nil =>
              /\ C32OnLeader => stepOut.safety.err = "cannot remove leader peer"
              /\ ~C32OnLeader => stepOut.safety.err = ""
        /\ stepOut.op # Nil =>
              /\ C32OnLeader => stepOut.op.status = "CANCELED" /\ stepOut.op.currentStep = 0
              /\ ~C32OnLeader => stepOut.op.status # "CANCELED"

\* The peer to remove is the leader's: the step reported the error and the
\* operator was cancelled with the step not done.
C32_Witness ==
    /\ C32OnLeader
    /\ stepOut.safety = [err |-> "cannot remove leader peer"]
    /\ stepOut.op # Nil
    /\ stepOut.op.status = "CANCELED"

\* The leader is elsewhere and the peer is gone: no error, and the operator
\* finished.
C32_WitnessRemoved ==
    /\ stepIn.step.type = "RemovePeer"
    /\ ~C32OnLeader
    /\ stepIn.region.leader # 0
    /\ stepOut.safety = [err |-> ""]
    /\ stepOut.op # Nil
    /\ stepOut.op.status = "SUCCESS"

(***************************************************************************)
(* C34.  For the conf-changing steps AddPeer, AddLearner, PromoteLearner   *)
(* and RemovePeer, on every region snapshot IsFinish(region) implies       *)
(* ConfVerChanged(region): a step is never reported finished on a snapshot *)
(* that does not show its conf-version change.                             *)
(***************************************************************************)
C34ConfChanging ==
    stepIn.step.type \in {"AddPeer", "AddLearner", "PromoteLearner", "RemovePeer"}

C34_FinishImpliesConfVerChanged ==
    C34ConfChanging /\ stepOut.finish # Nil /\ stepOut.confVer # Nil =>
        (stepOut.finish.is => stepOut.confVer.is)

\* A learner was added and is still pending: the conf version has changed
\* and the step is not finished.
C34_Witness ==
    /\ stepIn.step.type = "AddLearner"
    /\ stepOut.finish = [is |-> FALSE]
    /\ stepOut.confVer = [is |-> TRUE]

\* Every conf-changing step was seen finished with its change shown.
C34_WitnessFinished ==
    /\ stepIn.step.type = "AddPeer"
    /\ stepOut.finish = [is |-> TRUE]
    /\ stepOut.confVer = [is |-> TRUE]

(***************************************************************************)
(* fixLooseMatchPeer on a region of three peers, the first of which is the *)
(* leader.  The second and third stores may be lost, and are in zone z1 or *)
(* z2; the fit holds the rule fit of the peer and may hold another rule    *)
(* whose label constraints admit one zone.                                 *)
(***************************************************************************)
LooseZones == {"z1", "z2"}

LooseStores ==
    {[s \in {10, 20, 30} |->
         IF s \in lost THEN Nil
         ELSE [DownTime |-> 0, State |-> "Up", Zone |-> IF s \in z2 THEN "z2" ELSE "z1"]] :
        lost \in {{}, {20}, {30}, {20, 30}}, z2 \in {{}, {20}, {30}}}

LooseRule(role, constraints) == [Count |-> 1, Role |-> role, LabelConstraints |-> constraints]

LooseOtherFits ==
    {<<>>} \cup
    {<<[Rule |-> LooseRule(role, {z}), Peers |-> <<>>, PeersWithDifferentRole |-> <<>>]>> :
        role \in {"voter", "leader", "learner"}, z \in LooseZones}

LooseInputs ==
    {[cluster |-> [stores |-> st, maxStoreDownTime |-> 1],
      region |-> [Peers |-> <<FixPeer(1, learners), FixPeer(2, learners), FixPeer(3, learners)>>,
                  Leader |-> 1,
                  DownPeers |-> <<>>],
      rf |-> [Rule |-> LooseRule(role, constraints),
              Peers |-> <<FixPeer(p, learners)>>,
              PeersWithDifferentRole |-> <<FixPeer(p, learners)>>],
      fit |-> [RuleFits |-> <<[Rule |-> LooseRule(role, constraints),
                               Peers |-> <<FixPeer(p, learners)>>,
                               PeersWithDifferentRole |-> <<FixPeer(p, learners)>>]>> \o others],
      peer |-> FixPeer(p, learners),
      leaderAllowed |-> allowed,
      created |-> created] :
        st \in LooseStores,
        learners \in {{}, {2}, {3}},
        role \in {"voter", "leader", "follower", "learner"},
        constraints \in {{}, {"z1"}},
        p \in 1..3,
        others \in LooseOtherFits,
        allowed \in [1..3 -> BOOLEAN],
        created \in BOOLEAN}

\* The peer is loosely matched by its rule, on a store the rule admits.
LooseCalls ==
    {c \in LooseInputs :
        /\ LooselyMatched(c.peer, c.region.Leader, c.rf.Rule.Role)
        /\ GetStore(c.cluster, c.peer.StoreId) # Nil
        /\ MatchLabelConstraints(GetStore(c.cluster, c.peer.StoreId),
                                 c.rf.Rule.LabelConstraints)}

InitLoose ==
    /\ looseIn \in LooseCalls
    /\ looseOut = Nil
    /\ HotIdle /\ BalIdle /\ OpIdle /\ looseRestIdle

FixLooseMatchPeer ==
    /\ looseOut = Nil
    /\ looseOut' = fixLooseMatchPeer(looseIn, looseIn.rf, looseIn.peer)
    /\ UNCHANGED looseIn
    /\ UNCHANGED looseOthers

NextLoose == FixLooseMatchPeer

SpecLoose == InitLoose /\ [][NextLoose]_vars

(***************************************************************************)
(* C33.  When the rule checker fixes a leader or follower role, it         *)
(* transfers the leader only to a peer that is not a learner, whose store  *)
(* exists and passes the transfer-leader state filter, and whose store     *)
(* matches the label constraints of some Leader or Voter rule of the       *)
(* region's fit; when no such peer exists it emits no operator.            *)
(***************************************************************************)
\* The call fixes a leader or a follower role.
C33FixesRole ==
    /\ ~(looseIn.peer.IsLearner /\ looseIn.rf.Rule.Role # "learner")
    /\ \/ looseIn.region.Leader # looseIn.peer.Id /\ looseIn.rf.Rule.Role = "leader"
       \/ looseIn.region.Leader = looseIn.peer.Id /\ looseIn.rf.Rule.Role = "follower"

C33Rules ==
    {looseIn.fit.RuleFits[i].Rule : i \in DOMAIN looseIn.fit.RuleFits}

\* The peers of the region the leader may be transferred to.
C33MayLead ==
    {p \in {looseIn.region.Peers[i] : i \in DOMAIN looseIn.region.Peers} :
        /\ ~p.IsLearner
        /\ looseIn.cluster.stores[p.StoreId] # Nil
        /\ looseIn.leaderAllowed[p.Id]
        /\ \E r \in C33Rules :
              /\ r.Role \in {"leader", "voter"}
              /\ \/ r.LabelConstraints = {}
                 \/ looseIn.cluster.stores[p.StoreId].Zone \in r.LabelConstraints}

C33_TransferTarget ==
    looseOut # Nil /\ C33FixesRole =>
        /\ looseOut.op # Nil =>
              /\ looseOut.op.desc \in {"fix-leader-role", "fix-follower-role"}
              /\ \E p \in C33MayLead : p.StoreId = looseOut.op.to
        /\ C33MayLead = {} => looseOut.op = Nil

\* The leader sits under a follower rule, the second peer's store is in a
\* zone no leader or voter rule admits, and the leader went to the third.
C33_Witness ==
    /\ looseOut # Nil
    /\ C33FixesRole
    /\ looseIn.rf.Rule.Role = "follower"
    /\ looseIn.leaderAllowed[2]
    /\ ~looseIn.region.Peers[2].IsLearner
    /\ looseIn.cluster.stores[20] # Nil
    /\ looseOut.op = [desc |-> "fix-follower-role", from |-> 10, to |-> 30]

\* A role is to be fixed and no peer may lead: an error and no operator.
C33_WitnessNone ==
    /\ looseOut # Nil
    /\ C33FixesRole
    /\ C33MayLead = {}
    /\ looseOut.op = Nil
    /\ looseOut.err \in {"peer cannot be leader", "no new leader"}

(***************************************************************************)
(* DrainAndStopTimer.  A time.Timer is armed or not and its channel t.C    *)
(* has room for one tick; when an armed timer expires the runtime disarms  *)
(* it and sends the tick without blocking.  t.Stop disarms the timer and   *)
(* returns whether it was armed.  The goroutine that owns the timer        *)
(* receives from t.C, or calls DrainAndStopTimer and then Reset.  A tick   *)
(* carries the number of the arming it was fired for, so that a tick from  *)
(* before a Reset can be told from one fired after it.                     *)
(***************************************************************************)
\* The most times the timer is reset.
MaxResets == 3

\* The body of `if !t.Stop() { select { case <-t.C: default: } }` after
\* t.Stop: where the function goes next.
afterStop(stopped) == IF stopped THEN "returned" ELSE "select"

\* Mutant: the channel is left as it is.
drainSelect_NoDrain(ch) == ch

\* select { case <-t.C: default: }: a tick in the channel is taken, an empty
\* channel is left through default.
drainSelect(ch) == IF Len(ch) > 0 THEN Tail(ch) ELSE ch

InitTimer ==
    /\ tmActive = TRUE
    /\ tmGen = 1
    /\ tmChan = <<>>
    /\ tmPc = "run"
    /\ tmStopped = FALSE
    /\ tmRecv = {}
    /\ HotIdle /\ BalIdle /\ OpIdle /\ tmRestIdle

\* The runtime: the armed timer expires.
TimerFire ==
    /\ tmActive
    /\ tmActive' = FALSE
    /\ tmChan' = IF Len(tmChan) = 0 THEN <<tmGen>> ELSE tmChan
    /\ UNCHANGED <<tmGen, tmPc, tmStopped, tmRecv>>
    /\ UNCHANGED tmOthers

\* The owner receives a tick (<-t.C).
TimerReceive ==
    /\ tmPc = "run"
    /\ Len(tmChan) > 0
    /\ tmRecv' = tmRecv \cup {<<Head(tmChan), tmGen>>}
    /\ tmChan' = Tail(tmChan)
    /\ UNCHANGED <<tmActive, tmGen, tmPc, tmStopped>>
    /\ UNCHANGED tmOthers

\* The owner calls DrainAndStopTimer(t).
DrainCall ==
    /\ tmPc = "run"
    /\ tmPc' = "stop"
    /\ UNCHANGED <<tmActive, tmGen, tmChan, tmStopped, tmRecv>>
    /\ UNCHANGED tmOthers

\* t.Stop().
DrainStop ==
    /\ tmPc = "stop"
    /\ tmStopped' = tmActive
    /\ tmActive' = FALSE
    /\ tmPc' = afterStop(tmActive)
    /\ UNCHANGED <<tmGen, tmChan, tmRecv>>
    /\ UNCHANGED tmOthers

\* The select with its default case.
DrainSelect ==
    /\ tmPc = "select"
    /\ tmChan' = drainSelect(tmChan)
    /\ tmPc' = "returned"
    /\ UNCHANGED <<tmActive, tmGen, tmStopped, tmRecv>>
    /\ UNCHANGED tmOthers

\* After DrainAndStopTimer returned the owner resets the timer ...
TimerReset ==
    /\ tmPc = "returned"
    /\ tmGen < MaxResets + 1
    /\ tmActive' = TRUE
    /\ tmGen' = tmGen + 1
    /\ tmPc' = "run"
    /\ UNCHANGED <<tmChan, tmStopped, tmRecv>>
    /\ UNCHANGED tmOthers

\* ... or leaves it stopped and goes on.
TimerLeave ==
    /\ tmPc = "returned"
    /\ tmPc' = "run"
    /\ UNCHANGED <<tmActive, tmGen, tmChan, tmStopped, tmRecv>>
    /\ UNCHANGED tmOthers

NextTimer ==
    \/ TimerFire
    \/ TimerReceive
    \/ DrainCall
    \/ DrainStop
    \/ DrainSelect
    \/ TimerReset
    \/ TimerLeave

SpecTimer == InitTimer /\ [][NextTimer]_vars

(***************************************************************************)
(* C35.  After DrainAndStopTimer(t) returns, the timer is stopped and its  *)
(* channel holds no pending tick, whether or not the timer had already     *)
(* fired and whether or not its tick had already been received; a Reset    *)
(* that follows therefore never delivers a tick from before the reset,     *)
(* and DrainAndStopTimer never blocks.                                     *)
(***************************************************************************)
C35Returned == tmPc = "returned" => ~tmActive /\ tmChan = <<>>

\* No tick is received, or waits in the channel, from an earlier arming
\* than the last Reset's.
C35NoStaleTick ==
    /\ \A r \in tmRecv : r[1] = r[2]
    /\ \A i \in DOMAIN tmChan : tmChan[i] = tmGen

\* Inside DrainAndStopTimer the next step can always be taken.
C35NeverBlocks ==
    /\ tmPc = "stop" => ENABLED DrainStop
    /\ tmPc = "select" => ENABLED DrainSelect

C35_WitnessReceived ==
    /\ tmPc = "returned"
    /\ ~tmStopped
    /\ tmGen = 1
    /\ tmRecv = {<<1, 1>>}

\* The timer had not fired: Stop disarmed it.
C35_WitnessArmed == tmPc = "returned" /\ tmStopped /\ tmRecv = {}

(***************************************************************************)
(* hotPeerCache.Update on the two maps, for items of several regions on    *)
(* several stores.  A TopN is [regions |-> the regions it holds an item    *)
(* of] (Put adds the item's region, Remove takes it out), the stores of a  *)
(* region are [stores |-> set], and a map key never written is Nil.        *)
(***************************************************************************)
UpdStores == {1, 2, 3}

UpdRegions == {1, 2}

UpdItems == [StoreID : UpdStores, RegionID : UpdRegions, needDelete : BOOLEAN]

\* Mutant: a delete leaves the region's set of stores as it is.
UpdateMaps_DeleteKeepsStore(c, item) ==
    IF item.needDelete
    THEN [c EXCEPT !.peers[item.StoreID] = IF @ # Nil THEN [regions |-> @.regions \ {item.RegionID}] ELSE @]
    ELSE [peers |-> [c.peers EXCEPT ![item.StoreID] =
                        [regions |-> (IF @ = Nil THEN {} ELSE @.regions) \cup {item.RegionID}]],
          stores |-> [c.stores EXCEPT ![item.RegionID] =
                        [stores |-> (IF @ = Nil THEN {} ELSE @.stores) \cup {item.StoreID}]]]

\* Update on c = [peers |-> f.peersOfStore, stores |-> f.storesOfRegion].
UpdateMaps(c, item) ==
    IF item.needDelete
    THEN [peers |-> [c.peers EXCEPT ![item.StoreID] =
                        IF @ # Nil THEN [regions |-> @.regions \ {item.RegionID}] ELSE @],
          stores |-> [c.stores EXCEPT ![item.RegionID] =
                        IF @ # Nil THEN [stores |-> @.stores \ {item.StoreID}] ELSE @]]
    ELSE [peers |-> [c.peers EXCEPT ![item.StoreID] =
                        [regions |-> (IF @ = Nil THEN {} ELSE @.regions) \cup {item.RegionID}]],
          stores |-> [c.stores EXCEPT ![item.RegionID] =
                        [stores |-> (IF @ = Nil THEN {} ELSE @.stores) \cup {item.StoreID}]]]

\* NewHotStoresStats: both maps are empty.
InitUpdate ==
    /\ updPeers = [s \in UpdStores |-> Nil]
    /\ updStores = [r \in UpdRegions |-> Nil]
    /\ updItem = Nil
    /\ HotIdle /\ BalIdle /\ OpIdle /\ updRestIdle

CallUpdate ==
    \E item \in UpdItems :
        LET c == UpdateMaps([peers |-> updPeers, stores |-> updStores], item)
        IN /\ updPeers' = c.peers
           /\ updStores' = c.stores
           /\ updItem' = item
           /\ UNCHANGED updOthers

NextUpdate == CallUpdate

SpecUpdate == InitUpdate /\ [][NextUpdate]_vars

(***************************************************************************)
(* C36.  After any sequence of hotPeerCache.Update calls, store s is in    *)
(* storesOfRegion[r] exactly when peersOfStore[s] holds an item for region *)
(* r (TopN TTL expiry aside): a put adds the pair to both maps and a       *)
(* delete removes it from both.                                            *)
(***************************************************************************)
C36InStores(s, r) == updStores[r] # Nil /\ s \in updStores[r].stores

C36InPeers(s, r) == updPeers[s] # Nil /\ r \in updPeers[s].regions

C36_MapsAgree ==
    /\ \A s \in UpdStores, r \in UpdRegions : C36InStores(s, r) <=> C36InPeers(s, r)
    /\ updItem # Nil =>
          IF updItem.needDelete
          THEN /\ ~C36InStores(updItem.StoreID, updItem.RegionID)
               /\ ~C36InPeers(updItem.StoreID, updItem.RegionID)
          ELSE /\ C36InStores(updItem.StoreID, updItem.RegionID)
               /\ C36InPeers(updItem.StoreID, updItem.RegionID)

\* An item was deleted from a store that keeps the item of another region,
\* and whose region is kept by another store.
C36_Witness ==
    /\ updItem # Nil
    /\ updItem.needDelete
    /\ updPeers[updItem.StoreID] # Nil
    /\ updPeers[updItem.StoreID].regions # {}
    /\ updStores[updItem.RegionID] # Nil
    /\ updStores[updItem.RegionID].stores # {}

(***************************************************************************)
(* The patrol loop on its own, fair, with checkers that are never busy.    *)
(* The operators the regions hold at the start stay; CheckRegion may add   *)
(* one.  The cluster has two regions, or more regions than one scan batch. *)
(***************************************************************************)
PatrolTrees == {[hi |-> 2, open |-> TRUE], [hi |-> MaxScanRegions, open |-> TRUE]}

\* The regions that hold an operator from the start: none, one, all of the
\* first batch but its last, all of the first batch.
PatrolOperators ==
    {{}, {2}, 1..(patrolScanRegionLimit - 1), 1..patrolScanRegionLimit}

InitPatrol ==
    /\ scanTree \in PatrolTrees
    /\ scanOperators \in {ops \in PatrolOperators : \A id \in ops : HasRegion(scanTree, id)}
    /\ scanSuspects = {}
    /\ scanKeyRanges = {}
    /\ scanLoop = [pc |-> "select", key |-> EmptyKey, ids |-> <<>>, regions |-> <<>>,
                   i |-> 0, round |-> <<>>, had |-> FALSE, empty |-> FALSE]
    /\ HotIdle /\ BalIdle /\ OpIdle /\ scanRestIdle

\* CheckRegion on a region of the batch, the checkers not busy.
PatrolBatchCheck == ScanBatchCheck /\ scanLoop'.pc = "batch"

NextPatrol ==
    \/ ScanTimer
    \/ ScanSuspectNext
    \/ ScanCheckSuspectKeyRanges
    \/ ScanScanRegions
    \/ ScanBatchNext
    \/ PatrolBatchCheck

SpecPatrol == InitPatrol /\ [][NextPatrol]_vars /\ WF_vars(NextPatrol)

(***************************************************************************)
(* C37.  Under a fair patrol loop with checkers never busy, every region   *)
(* that has no operator is eventually passed to CheckRegion, whatever      *)
(* other regions hold operators and even when the cluster has more regions *)
(* than one scan batch: the scan cursor cannot stay on the same batch      *)
(* forever.                                                                *)
(***************************************************************************)
\* CheckRegion is being called on region r.
C37Checked(r) ==
    /\ scanLoop.pc = "batchCheck"
    /\ scanLoop.regions[scanLoop.i] = r

\* The regions watched: the first two, the last of the first batch and the
\* regions behind the first batch.
C37Watched == {1, 2} \cup (patrolScanRegionLimit..MaxScanRegions)

C37_Stuck ==
    /\ scanLoop.pc = "select"
    /\ scanLoop.round = <<"suspects", "scan">>
    /\ scanLoop.key = EmptyKey
    /\ scanLoop.regions # <<>>
    /\ \A k \in DOMAIN scanLoop.regions : scanLoop.regions[k] \in scanOperators
    /\ \E r \in 1..scanTree.hi : r \notin scanOperators

(***************************************************************************)
(* A suspect key range over the patrol rounds: AddSuspectKeyRange has put  *)
(* the range into the suspect key ranges, and every round of patrolRegions *)
(* calls checkSuspectKeyRanges, which pops one range.                      *)
(***************************************************************************)
InitRangeRounds ==
    /\ \E tree \in RangeTrees, keyRange \in KeyRanges :
          /\ kqCluster = [tree |-> tree, suspectRegions |-> {},
                          suspectKeyRanges |-> {keyRange}]
          /\ kqRange = keyRange
    /\ kqAdded = {}
    /\ kqStarts = <<>>
    /\ HotIdle /\ BalIdle /\ OpIdle /\ kqRestIdle

\* One patrol round with a key range to pop.
KeyRangeRound ==
    /\ \E keyRange \in kqCluster.suspectKeyRanges :
          LET after == checkSuspectKeyRanges(kqCluster, keyRange)
          IN /\ kqCluster' = after
             /\ kqAdded' = kqAdded \cup after.suspectRegions
             /\ kqStarts' = Append(kqStarts, keyRange[1])
    /\ UNCHANGED kqRange
    /\ UNCHANGED kqOthers

NextRangeRounds == KeyRangeRound

SpecRangeRounds == InitRangeRounds /\ [][NextRangeRounds]_vars /\ WF_vars(NextRangeRounds)

(***************************************************************************)
(* C38.  After AddSuspectKeyRange(start, end), repeated patrol rounds      *)
(* eventually add every region that overlaps [start, end) to the suspect   *)
(* regions, including when the range covers more regions than the scan     *)
(* limit of one pop and when end is empty (unbounded); the chain of        *)
(* re-enqueued remainders has strictly increasing start keys and           *)
(* terminates.                                                             *)
(***************************************************************************)
\* The regions that overlap [start, end): region r holds the keys from r - 1
\* up to r, the last region of an open tree every key from hi - 1 on.
C38Overlapping ==
    {r \in 1..kqCluster.tree.hi :
        /\ kqRange[2] = EmptyKey \/ r - 1 < kqRange[2]
        /\ r > kqRange[1] \/ (r = kqCluster.tree.hi /\ kqCluster.tree.open)}

C38Increasing ==
    \A i \in DOMAIN kqStarts : \A j \in DOMAIN kqStarts : i < j => kqStarts[i] < kqStarts[j]

C38_RangeCovered ==
    /\ <>(C38Overlapping \subseteq kqAdded)
    /\ <>[](kqCluster.suspectKeyRanges = {})
    /\ []C38Increasing

\* The chain has ended with regions of an unbounded range not added.
C38_Lost ==
    /\ kqRange[2] = EmptyKey
    /\ kqCluster.suspectKeyRanges = {}
    /\ kqStarts # <<>>
    /\ ~(C38Overlapping \subseteq kqAdded)

\* A bounded range over more regions than one pop scans was covered in two
\* pops.
C38_Chained ==
    /\ kqRange[2] # EmptyKey
    /\ Len(kqStarts) = 2
    /\ kqCluster.suspectKeyRanges = {}
    /\ C38Overlapping \subseteq kqAdded
    /\ Cardinality(C38Overlapping) > checkSuspectKeyRangesLimit

(***************************************************************************)
(* pauseOrResumeScheduler beside the runScheduler loops.  The call holds   *)
(* the coordinator's lock; the loops do not take it and read delayUntil    *)
(* atomically.  c.cluster is set by newCoordinator and is never nil.  A    *)
(* loop is at its timer, or between AllowSchedule and Schedule             *)
(* ("schedule"), or between Schedule and AddWaitingOperator ("add").       *)
(***************************************************************************)
\* The clock runs up to MaxNow seconds.
MaxNow == 3

PauseNames == {"balance-leader", "balance-region", "all"}

PauseTimes == {-1, 0, 1, 2}

\* scheduleController.IsPaused.
IsPaused(nowUnix, delayUntil) == nowUnix < delayUntil

\* Mutant: a paused scheduler is allowed to schedule.
AllowSchedule_IgnoresPause(isScheduleAllowed, nowUnix, delayUntil) == isScheduleAllowed

\* scheduleController.AllowSchedule; isScheduleAllowed is the answer of
\* Scheduler.IsScheduleAllowed.
AllowSchedule(isScheduleAllowed, nowUnix, delayUntil) ==
    isScheduleAllowed /\ ~IsPaused(nowUnix, delayUntil)

\* The schedulers the call collects in s.
pauseTargets(schedulers, name) ==
    IF name # "all" THEN schedulers \cap {name} ELSE schedulers

\* pauseOrResumeScheduler: the error returned and delayUntil of every
\* scheduler after the call.
pauseOrResumeScheduler(schedulers, delay, name, t, nowUnix) ==
    IF name # "all" /\ name \notin schedulers
    THEN [err |-> "ErrSchedulerNotFound", delayUntil |-> delay]
    ELSE [err |-> "",
          delayUntil |-> [s \in schedulers |->
                             IF s \in pauseTargets(schedulers, name)
                             THEN (IF t > 0 THEN nowUnix + t ELSE 0)
                             ELSE delay[s]]]

InitPause ==
    /\ psNow = 1
    /\ psSchedulers \in {{"balance-leader"}, {"balance-leader", "balance-region"}}
    /\ psDelayUntil = [s \in psSchedulers |-> 0]
    /\ psLoop = [s \in psSchedulers |-> "timer"]
    /\ psCall = Nil
    /\ HotIdle /\ BalIdle /\ OpIdle /\ psRestIdle

PauseOrResumeScheduler ==
    /\ \E name \in PauseNames, t \in PauseTimes :
          LET r == pauseOrResumeScheduler(psSchedulers, psDelayUntil, name, t, psNow)
          IN /\ psDelayUntil' = r.delayUntil
             /\ psCall' = [name |-> name, t |-> t, at |-> psNow, err |-> r.err,
                           before |-> psDelayUntil]
    /\ UNCHANGED <<psNow, psSchedulers, psLoop>>
    /\ UNCHANGED psOthers

\* A second passes.
PauseClock ==
    /\ psNow < MaxNow
    /\ psNow' = psNow + 1
    /\ UNCHANGED <<psSchedulers, psDelayUntil, psLoop, psCall>>
    /\ UNCHANGED psOthers

\* case <-timer.C: AllowSchedule; a scheduler not allowed waits for the
\* next tick.
PauseLoopTick(s) ==
    /\ psLoop[s] = "timer"
    /\ \E isScheduleAllowed \in BOOLEAN :
          psLoop' = [psLoop EXCEPT ![s] =
                        IF AllowSchedule(isScheduleAllowed, psNow, psDelayUntil[s])
                        THEN "schedule" ELSE "timer"]
    /\ UNCHANGED <<psNow, psSchedulers, psDelayUntil, psCall>>
    /\ UNCHANGED psOthers

\* s.Schedule(): operators, or none.
PauseLoopSchedule(s) ==
    /\ psLoop[s] = "schedule"
    /\ \E some \in BOOLEAN :
          psLoop' = [psLoop EXCEPT ![s] = IF some THEN "add" ELSE "timer"]
    /\ UNCHANGED <<psNow, psSchedulers, psDelayUntil, psCall>>
    /\ UNCHANGED psOthers

\* c.opController.AddWaitingOperator(op...).
PauseLoopAdd(s) ==
    /\ psLoop[s] = "add"
    /\ psLoop' = [psLoop EXCEPT ![s] = "timer"]
    /\ UNCHANGED <<psNow, psSchedulers, psDelayUntil, psCall>>
    /\ UNCHANGED psOthers

NextPause ==
    \/ PauseOrResumeScheduler
    \/ PauseClock
    \/ \E s \in psSchedulers : PauseLoopTick(s)
    \/ \E s \in psSchedulers : PauseLoopSchedule(s)
    \/ \E s \in psSchedulers : PauseLoopAdd(s)

SpecPause == InitPause /\ [][NextPause]_vars

(***************************************************************************)
(* C39.  pauseOrResumeScheduler(name, t) with t > 0 pauses the named       *)
(* scheduler (every scheduler for name "all") until now + t seconds and    *)
(* with t <= 0 resumes it; an unknown name returns SchedulerNotFound       *)
(* without changing any scheduler.  While a scheduler is paused, a tick of *)
(* its loop calls no Schedule and submits no operator; a passage of the    *)
(* loop that found the scheduler not paused goes on to Schedule and to     *)
(* AddWaitingOperator when the scheduler is paused meanwhile.              *)
(***************************************************************************)
C39Paused(s) == psNow < psDelayUntil[s]

C39Named(s) == psCall.name = "all" \/ psCall.name = s

C39Unknown == psCall.name # "all" /\ psCall.name \notin psSchedulers

\* What the last call did.
C39CallEffect ==
    psCall # Nil =>
        /\ C39Unknown => psCall.err = "ErrSchedulerNotFound" /\ psDelayUntil = psCall.before
        /\ ~C39Unknown =>
              /\ psCall.err = ""
              /\ \A s \in psSchedulers :
                    /\ C39Named(s) /\ psCall.t > 0 =>
                          (C39Paused(s) <=> psNow < psCall.at + psCall.t)
                    /\ C39Named(s) /\ psCall.t <= 0 => ~C39Paused(s)
                    /\ ~C39Named(s) => psDelayUntil[s] = psCall.before[s]

\* The loop of s calls Schedule, or submits operators, in this step.
C39Schedules(s) == psLoop[s] = "schedule" /\ psLoop'[s] # "schedule"

C39Submits(s) == psLoop[s] = "add" /\ psLoop'[s] = "timer"

\* The claim as stated: no Schedule and no submission while paused.
C39NeverWhilePaused ==
    \A s \in psSchedulers : C39Paused(s) => ~C39Schedules(s) /\ ~C39Submits(s)

C39_Original == []C39CallEffect /\ [][C39NeverWhilePaused]_vars

\* A tick of a paused scheduler's loop leaves the loop at its timer.
C39TickWhilePaused ==
    \A s \in psSchedulers :
        C39Paused(s) /\ psLoop[s] = "timer" => psLoop'[s] = "timer"

C39_PauseOrResume == []C39CallEffect /\ [][C39TickWhilePaused]_vars

\* Every scheduler was paused by a call for "all" and one of them, past
\* AllowSchedule when the call came, is about to call Schedule.
C39_Witness ==
    /\ psCall # Nil
    /\ psCall.name = "all"
    /\ psCall.t > 0
    /\ psSchedulers = {"balance-leader", "balance-region"}
    /\ \A s \in psSchedulers : C39Paused(s)
    /\ psLoop["balance-leader"] = "schedule"
    /\ psLoop["balance-region"] = "timer"

\* A call for a name that is not registered left a paused scheduler paused.
C39_WitnessUnknown ==
    /\ psCall # Nil
    /\ C39Unknown
    /\ psCall.err = "ErrSchedulerNotFound"
    /\ \E s \in psSchedulers : C39Paused(s)

\* A paused scheduler was resumed before its time.
C39_WitnessResumed ==
    /\ psCall # Nil
    /\ ~C39Unknown
    /\ psCall.t <= 0
    /\ \E s \in psSchedulers : psNow < psCall.before[s] /\ ~C39Paused(s)

(***************************************************************************)
(* C40.  removeScheduler(name) stops the scheduler's task and deletes it   *)
(* from the registry only when removing its config entry, persisting the   *)
(* options and deleting its stored config all succeed; if any of these     *)
(* fails, or the name is not registered, an error is returned and the set  *)
(* of registered, running schedulers is unchanged.                         *)
(***************************************************************************)
\* Caller t takes a step of removeScheduler behind the lock.
C40RemoveStep(t) ==
    /\ regThreads[t].call = "remove"
    /\ regThreads[t].pc \in {"check", "act"}
    /\ regThreads'[t] # regThreads[t]

C40Step ==
    \A t \in RegCallers :
       C40RemoveStep(t) =>
          LET n == regThreads[t].name IN
          /\ regThreads[t].pc = "check" =>
                /\ UNCHANGED <<regSchedulers, regTasks, regCfg>>
                /\ regSchedulers[n] = 0 =>
                      /\ regThreads'[t].err = "SchedulerNotFound"
                      /\ regThreads'[t].pc = "unlock"
                /\ regSchedulers[n] # 0 => regThreads'[t].err = "" /\ regThreads'[t].pc = "act"
          /\ regThreads[t].pc = "act" =>
                /\ regThreads'[t].pc = "unlock"
                /\ regThreads'[t].err # "" => UNCHANGED <<regSchedulers, regTasks>>
                /\ regThreads'[t].err = "" =>
                      /\ regSchedulers' = [regSchedulers EXCEPT ![n] = 0]
                      /\ regTasks' = [regTasks EXCEPT ![regSchedulers[n]].stopped = TRUE]
                      /\ n \notin regCfg'

\* The registry and the tasks change only by a call that returns no error.
C40OnlyOnSuccess ==
    (\E n \in RegNames : regSchedulers[n] # 0 /\ regSchedulers'[n] = 0) =>
        \E t \in RegCallers :
           /\ C40RemoveStep(t)
           /\ regThreads[t].pc = "act"
           /\ regThreads'[t].err = ""

C40_RemoveScheduler == [][C40Step /\ C40OnlyOnSuccess]_vars

\* The configuration entry was removed and the options could not be saved:
\* the call returns the error with the scheduler registered and running.
C40_Witness ==
    \E t \in RegCallers :
       /\ regThreads[t].call = "remove"
       /\ regThreads[t].pc = "unlock"
       /\ regThreads[t].err = "Persist"
       /\ regSchedulers[regThreads[t].name] # 0
       /\ ~regTasks[regSchedulers[regThreads[t].name]].stopped
       /\ regThreads[t].name \notin regCfg

\* Every step succeeded: the task is stopped and the name is free.
C40_WitnessRemoved ==
    \E t \in RegCallers :
       /\ regThreads[t].call = "remove"
       /\ regThreads[t].pc = "unlock"
       /\ regThreads[t].err = ""
       /\ regThreads[t].s # 0
       /\ regSchedulers[regThreads[t].name] = 0
       /\ regTasks[regThreads[t].s].stopped

====
